---- MODULE Spec2Model ----
(***************************************************************************)
(* dbp2p: a document store (package db) with per-document files, a         *)
(* transaction log and backups, replicated between nodes over the          *)
(* "db-sync" gossip topic.                                                 *)
(*                                                                         *)
(* A Go map is a function whose DOMAIN is the set of keys present.         *)
(* Values of a document's data are JSON-decoded values (every caller of    *)
(* CreateDocument / UpdateDocument passes a map decoded from JSON), on     *)
(* which json.Marshal followed by json.Unmarshal is the identity; a        *)
(* time.Time is the instant it denotes.                                    *)
(***************************************************************************)
EXTENDS Integers, Sequences, FiniteSets, TLC

\* ------------------------------------------------------------------ bounds

\* Calls made to the store in a run of Spec; the clock has moved on with
\* every call, so that no two calls read the same time.Now().
MaxClock == 4
\* Calls made to the store in a run of SpecBackup.
MaxBackupClock == 5
\* Documents a node may create (uuid.New() never repeats).
MaxCreates == 2
\* Clock readings that format to the same "20060102_150405" second.
TicksPerSecond == 4
\* Calls made to the two stores in a run of SpecSync.
MaxSyncClock == 3
\* Messages a node publishes on "db-sync" in a run of SpecSync.
MaxPublished == 3
\* Calls made to the store in a run of SpecRestore.
MaxRestoreClock == 3
\* Calls made to the store in a run of SpecEvents.
MaxEventClock == 3
\* Readings of the clock in a run of SpecIndex.
MaxIndexClock == 5
\* Readings of the clock in a run of SpecCache.
MaxCacheClock == 4
\* Readings of the clock in a run of SpecMemory.
MaxMemoryClock == 5
\* Calls of the application that keeps an index up to date.
MaxReindexClock == 7
\* Readings of the clock in a run of SpecLocks.
MaxLockClock == 3
\* The capacity of the send channel of a WebSocket client (256 in the code).
SendBuffer == 1
\* Rounds a SyncManager starts in a run of SpecRounds.
MaxRounds == 2
\* Calls the clients make to the stores in a run of SpecFullSync.
MaxFullSyncClock == 3
\* Full synchronisation requests made in a run of SpecFullSync.
MaxRequests == 2
\* SyncConfig.BatchSize (100 by default), scaled down.
BatchSize == 1

\* ------------------------------------------------------------------ values

Nodes == {"A", "B"}

Peer(n) == IF n = "A" THEN "B" ELSE "A"

\* uuid.New().String(): the i-th id generated on node n.
NewID(n, i) == <<n, i>>

Ids == Nodes \X (1 .. MaxCreates)

Keys == {"name", "age"}

Values == {1, 2, 3}

Users == "users"

\* The partial maps over Keys: map[string]any.
DataMaps == UNION {[S -> Values] : S \in SUBSET Keys}

EmptyMap == [k \in {} |-> 0]

\* type Document struct
Document(id, collection, data, created, updated) ==
    [id |-> id, collection |-> collection, data |-> data,
     created_at |-> created, updated_at |-> updated]

\* A slip for maps.Copy: the document's data is replaced by the patch.
MapsReplace(dst, src) == src

\* maps.Copy(dst, src): every key of src is set in dst, the others stay.
MapsCopy(dst, src) ==
    [k \in (DOMAIN dst) \cup (DOMAIN src) |->
        IF k \in DOMAIN src THEN src[k] ELSE dst[k]]

\* m[k] = v on a Go map.
Put(m, k, v) == [x \in (DOMAIN m) \cup {k} |-> IF x = k THEN v ELSE m[x]]

\* delete(m, k) on a Go map.
Remove(m, k) == [x \in (DOMAIN m) \ {k} |-> m[x]]

\* The orders in which a map iteration may give the ids of S.
Orders(S) ==
    {q \in [1 .. Cardinality(S) -> S] : \A x \in S : \E i \in DOMAIN q : q[i] = x}

VARIABLES
    documents,   \* Database.documents of each node
    files,       \* collections/<collection>/<id>.json of each node's data_dir
    wal,         \* transactions.log of each node's data_dir, one entry per line
    backups,     \* backups/<name>/ of each node's data_dir
    nextId,      \* how many ids uuid.New() has handed out on each node
    now,         \* the next reading of time.Now()
    published,   \* the messages each node has published on "db-sync", in order
    delivered,   \* how many of its peer's messages each node's listener has taken
    events,      \* the events triggerEvent has dispatched on each node, in order
    ret,         \* the last step: who, what, on which id, the error returned
    restoring,   \* where each node's Database.RestoreFromBackup call stands
    taken,       \* per node and backup name, Database.documents when CreateBackup
                 \* last returned that name
    pending,     \* per node, the callback goroutines triggerEvent has started
                 \* that have not run yet
    observed,    \* per node, what the callbacks that have run were given, in
                 \* the order in which they ran
    syncRequests,  \* the SyncRequests made, in order ("sync_request")
    syncResponses, \* the SyncResponses returned, in order ("sync_response")
    handled,     \* per node: the requests and the responses its handlers are
                 \* done with, and the documents applied of the next response
    syncInProgress, \* SyncManager.syncInProgress of each node
    syncStats,   \* SyncManager.syncStats of each node: the rounds counted
    lastSyncByPeer, \* SyncManager.lastSyncByPeer of each node
    round,       \* per node, the rounds that are running, each with the
                 \* peers whose goroutine has not called sendSyncRequest yet,
                 \* those whose goroutine is stuck, successCount, failCount
    topics,      \* PubSubService.topics of each node: the topics joined
    blocked,     \* per node, the goroutines (named after their round and the
                 \* peer they send to) that wait on PubSubService.mutex and
                 \* will never get it
    queried,     \* the last Query.Execute: the node, the query, the documents
                 \* GetAllDocuments returned and the result
    indexes,     \* IndexManager.Indexes of the application on node A
    cache,       \* the Cache of the application on node A: itemsList from the
                 \* front (with it items), accessCount, the options, stats
    usage,       \* for each key in the cache: when it entered and when it
                 \* was last set or read
    mm,          \* the MemoryManager of node A's Database: config.MaxDocuments,
                 \* stats.DocumentCount, stats.CleanupCount, accessTimes and
                 \* the ids of documentSizes
    dbMutex,     \* Database.mutex of each node: the goroutine that holds it
                 \* for writing and the goroutines that hold it for reading
    hub,         \* the WSServer of node A: clients, and for each client its
                 \* send channel, its connection and where its readPump and
                 \* writePump are; the panic that has ended the process
    acked        \* per node, for each id a CreateDocument returned: the document
                 \* its last successful create or update returned, or Gone

\* The store of every node, its disk, its gossip and its callbacks.
storeVars == <<documents, files, wal, backups, nextId, now, published,
               delivered, events, restoring, taken, pending, observed, acked>>

\* Everything of the store but the clock.
storeButClock == <<documents, files, wal, backups, nextId, published,
                   delivered, events, restoring, taken, pending, observed,
                   acked>>

\* The requests and responses of the SyncManagers.
syncVars == <<syncRequests, syncResponses, handled>>

\* The rounds of the SyncManagers and the PubSubService of every node.
roundVars == <<syncInProgress, syncStats, lastSyncByPeer, round, topics,
               blocked>>

\* The query engine, the indexes and the cache.
engineVars == <<queried, indexes, cache, usage, mm>>

\* The mutex of every Database and the WebSocket server.
serverVars == <<dbMutex, hub>>

\* What a call of the store leaves alone.
besideStore == <<syncVars, roundVars, engineVars, serverVars>>

\* What the handlers of the SyncManager leave alone.
besideSync == <<roundVars, engineVars, serverVars>>

vars == <<documents, files, wal, backups, nextId, now, published, delivered,
          events, ret, restoring, taken, pending, observed, syncRequests,
          syncResponses, handled, syncInProgress, syncStats, lastSyncByPeer,
          round, topics, blocked, queried, indexes, cache, usage, mm, dbMutex,
          hub, acked>>

\* ------------------------------------------------------------ persistence

\* type Transaction struct; Document is omitted (omitempty) for a delete.
Transaction(type, docID, doc) ==
    IF type = "delete"
    THEN [type |-> type, doc_id |-> docID]
    ELSE [type |-> type, doc_id |-> docID, document |-> doc]

\* What the disk does to one persistence call: nothing goes wrong, the document
\* file cannot be written or removed, or the log line cannot be written or synced.
IoOutcomes == {"ok", "file_err", "wal_err"}

\* TransactionLogger.LogOperation: the line is appended and synced, or an error
\* is returned and the log is as before.
LogOperation(log, type, docID, doc, io) ==
    IF io = "wal_err"
    THEN [wal |-> log, err |-> TRUE]
    ELSE [wal |-> Append(log, Transaction(type, docID, doc)), err |-> FALSE]

\* PersistenceManager.SaveDocument: write the file, then log; the error of
\* LogOperation is dropped.
SaveDocument(fs, log, doc, io) ==
    IF io = "file_err"
    THEN [files |-> fs, wal |-> log, err |-> TRUE]
    ELSE [files |-> Put(fs, doc.id, doc),
          wal |-> LogOperation(log, "create", doc.id, doc, io).wal,
          err |-> FALSE]

\* PersistenceManager.UpdateDocument: the file must exist (os.Stat).
PersistUpdate(fs, log, doc, io) ==
    IF doc.id \notin DOMAIN fs \/ io = "file_err"
    THEN [files |-> fs, wal |-> log, err |-> TRUE]
    ELSE [files |-> Put(fs, doc.id, doc),
          wal |-> LogOperation(log, "update", doc.id, doc, io).wal,
          err |-> FALSE]

\* PersistenceManager.DeleteDocument: the file must exist; remove it, then log.
PersistDelete(fs, log, id, io) ==
    IF id \notin DOMAIN fs \/ io = "file_err"
    THEN [files |-> fs, wal |-> log, err |-> TRUE]
    ELSE [files |-> Remove(fs, id),
          wal |-> LogOperation(log, "delete", id, id, io).wal,
          err |-> FALSE]

\* PersistenceManager.LoadAllDocuments: every file of the collections tree,
\* keyed by the id written in it.
LoadAllDocuments(fs) ==
    [id \in {fs[f].id : f \in DOMAIN fs} |->
        fs[CHOOSE f \in DOMAIN fs : fs[f].id = id]]

\* ReplayTransactions: a create or update line puts its document in the map, a
\* delete line removes its id, in the order of the log.
RECURSIVE ReplayTransactions(_, _)
ReplayTransactions(docs, log) ==
    IF log = <<>>
    THEN docs
    ELSE LET t == Head(log)
         IN ReplayTransactions(
                IF t.type = "delete"
                THEN Remove(docs, t.doc_id)
                ELSE Put(docs, t.document.id, t.document),
                Tail(log))

\* time.Now().Format("20060102_150405"): the second of the reading.
BackupName(t) == t \div TicksPerSecond

\* copyDir(src, dst) onto the directory dst: each file of src is written over
\* its namesake, the other files of dst stay.
copyDir(src, dst) ==
    [f \in (DOMAIN src) \cup (DOMAIN dst) |->
        IF f \in DOMAIN src THEN src[f] ELSE dst[f]]

\* PersistenceManager.CreateBackup: backups/backup_<second>/ gets a copy of the
\* collections tree and of the log; MkdirAll accepts a directory that exists.
PersistCreateBackup(bk, fs, log, name) ==
    Put(bk, name,
        [collections |-> copyDir(fs, IF name \in DOMAIN bk
                                     THEN bk[name].collections ELSE EmptyMap),
         wal |-> log])

\* PersistenceManager.RestoreFromBackup: the collections tree is removed and
\* copied back from the backup, the log is replaced by the backup's.
PersistRestore(bk, fs, log, name) ==
    IF name \notin DOMAIN bk
    THEN [files |-> fs, wal |-> log, err |-> TRUE]
    ELSE [files |-> copyDir(bk[name].collections, EmptyMap),
          wal |-> bk[name].wal, err |-> FALSE]

\* ------------------------------------------------------------------ gossip

\* type DBMessage struct: a create or update carries the document, a delete the id.
DBMessage(operation, doc, id) ==
    IF operation = "delete"
    THEN [operation |-> operation, document_id |-> id]
    ELSE [operation |-> operation, document |-> doc]

\* DBSync.publishMessage: topic.Publish succeeds, or fails or times out after 5 s.
publishMessage(sent, msg, pubOk) == IF pubOk THEN Append(sent, msg) ELSE sent

\* A slip for triggerEvent: the loop over the callbacks is left out.
triggerEventNone(evs, type, collection, id) == evs

\* A slip for triggerEvent: the callback is started twice.
triggerEventTwice(evs, type, collection, id) ==
    evs \o << [type |-> type, collection |-> collection, id |-> id],
              [type |-> type, collection |-> collection, id |-> id] >>

\* Database.triggerEvent: one callback is registered (main registers the
\* WebSocket fan-out); it is started once per event.
triggerEvent(evs, type, collection, id) ==
    Append(evs, [type |-> type, collection |-> collection, id |-> id])

\* go callback(eventType, collection, documentID, document): the goroutine
\* started for the seq-th event of the node. document is a pointer: doc is what a
\* read through it gives now, live tells whether it points to the Document the
\* map holds under id, committed is the state the mutation left (for a delete,
\* the state it removed).
Callback(seq, type, collection, id, doc, live) ==
    [seq |-> seq, type |-> type, collection |-> collection, id |-> id,
     doc |-> doc, live |-> live, committed |-> doc]

\* The Document the map holds under id is written in place: every goroutine
\* holding a pointer to it reads the new state from now on.
WrittenInPlace(cbs, id, doc) ==
    {IF c.live /\ c.id = id THEN [c EXCEPT !.doc = doc] ELSE c : c \in cbs}

\* The map no longer holds the Documents it held under ids (removed, or
\* replaced by other Documents): the pointers to them read what they last held.
Unlinked(cbs, ids) ==
    {[c EXCEPT !.live = c.live /\ c.id \notin ids] : c \in cbs}

\* ------------------------------------------------------------------- store

NoId == <<"", 0>>

\* No RestoreFromBackup call is running.
Idle == [pc |-> "idle", name |-> 0, loaded |-> EmptyMap]

\* A step and what it returned: arg is the data map a create or update was given.
Ret(n, op, id, arg, err) ==
    [node |-> n, op |-> op, id |-> id, arg |-> arg, err |-> err]

\* In acked: the id's last successful call was a DeleteDocument.
Gone == [deleted |-> TRUE]

\* Database.GetDocument
GetDocument(n, id) ==
    IF id \in DOMAIN documents[n]
    THEN [doc |-> documents[n][id], err |-> "none"]
    ELSE [doc |-> EmptyMap, err |-> "notfound"]

\* A slip for CreateDocument: the insert is undone when persisting fails.
CreateDocumentRolledBack(n, collection, data, io, pubOk) ==
    /\ nextId[n] < MaxCreates
    /\ LET id == NewID(n, nextId[n] + 1)
           doc == Document(id, collection, data, now, now)
           p == SaveDocument(files[n], wal[n], doc, io)
       IN /\ files' = [files EXCEPT ![n] = p.files]
          /\ wal' = [wal EXCEPT ![n] = p.wal]
          /\ IF p.err
             THEN /\ ret' = Ret(n, "create", id, data, "persist")
                  /\ UNCHANGED <<documents, published, events, acked, pending>>
             ELSE /\ documents' = [documents EXCEPT ![n] = Put(@, id, doc)]
                  /\ published' = [published EXCEPT ![n] =
                         publishMessage(@, DBMessage("create", doc, id), pubOk)]
                  /\ events' = [events EXCEPT ![n] =
                         triggerEvent(@, "create", collection, id)]
                  /\ ret' = Ret(n, "create", id, data, "none")
                  /\ acked' = [acked EXCEPT ![n] = Put(@, id, doc)]
                  /\ pending' = [pending EXCEPT ![n] = @ \cup
                         {Callback(Len(events[n]) + 1, "create", collection,
                                   id, doc, TRUE)}]
    /\ nextId' = [nextId EXCEPT ![n] = @ + 1]
    /\ now' = now + 1
    /\ UNCHANGED <<backups, delivered, restoring, taken, observed>>

\* Database.CreateDocument
CreateDocument(n, collection, data, io, pubOk) ==
    /\ nextId[n] < MaxCreates
    /\ LET id == NewID(n, nextId[n] + 1)
           doc == Document(id, collection, data, now, now)
           p == SaveDocument(files[n], wal[n], doc, io)
       IN /\ documents' = [documents EXCEPT ![n] = Put(@, id, doc)]
          /\ files' = [files EXCEPT ![n] = p.files]
          /\ wal' = [wal EXCEPT ![n] = p.wal]
          /\ IF p.err
             THEN /\ ret' = Ret(n, "create", id, data, "persist")
                  /\ UNCHANGED <<published, events, acked, pending>>
             ELSE /\ published' = [published EXCEPT ![n] =
                         publishMessage(@, DBMessage("create", doc, id), pubOk)]
                  /\ events' = [events EXCEPT ![n] =
                         triggerEvent(@, "create", collection, id)]
                  /\ ret' = Ret(n, "create", id, data, "none")
                  /\ acked' = [acked EXCEPT ![n] = Put(@, id, doc)]
                  /\ pending' = [pending EXCEPT ![n] = @ \cup
                         {Callback(Len(events[n]) + 1, "create", collection,
                                   id, doc, TRUE)}]
    /\ nextId' = [nextId EXCEPT ![n] = @ + 1]
    /\ now' = now + 1
    /\ UNCHANGED <<backups, delivered, restoring, taken, observed>>

\* The document UpdateDocument leaves in the map: data merged in place,
\* updated_at set to time.Now().
Updated(doc, data, t) ==
    [doc EXCEPT !.data = MapsCopy(@, data), !.updated_at = t]

\* Database.UpdateDocument
UpdateDocument(n, id, data, io, pubOk) ==
    /\ IF id \notin DOMAIN documents[n]
       THEN /\ ret' = Ret(n, "update", id, data, "notfound")
            /\ UNCHANGED <<documents, files, wal, published, events, acked,
                           pending>>
       ELSE LET doc == Updated(documents[n][id], data, now)
                p == PersistUpdate(files[n], wal[n], doc, io)
            IN /\ documents' = [documents EXCEPT ![n] = Put(@, id, doc)]
               /\ files' = [files EXCEPT ![n] = p.files]
               /\ wal' = [wal EXCEPT ![n] = p.wal]
               /\ IF p.err
                  THEN /\ ret' = Ret(n, "update", id, data, "persist")
                       /\ pending' = [pending EXCEPT ![n] =
                              WrittenInPlace(@, id, doc)]
                       /\ UNCHANGED <<published, events, acked>>
                  ELSE /\ published' = [published EXCEPT ![n] =
                              publishMessage(@, DBMessage("update", doc, id), pubOk)]
                       /\ events' = [events EXCEPT ![n] =
                              triggerEvent(@, "update", doc.collection, id)]
                       /\ ret' = Ret(n, "update", id, data, "none")
                       /\ acked' = [acked EXCEPT ![n] = Put(@, id, doc)]
                       /\ pending' = [pending EXCEPT ![n] =
                              WrittenInPlace(@, id, doc) \cup
                              {Callback(Len(events[n]) + 1, "update",
                                        doc.collection, id, doc, TRUE)}]
    /\ now' = now + 1
    /\ UNCHANGED <<backups, nextId, delivered, restoring, taken, observed>>

\* A slip for DeleteDocument: the id is not looked up before it is deleted, so
\* an unknown id reaches the persistence manager.
DeleteDocumentUnchecked(n, id, io, pubOk) ==
    /\ LET p == PersistDelete(files[n], wal[n], id, io)
       IN /\ documents' = [documents EXCEPT ![n] = Remove(@, id)]
          /\ files' = [files EXCEPT ![n] = p.files]
          /\ wal' = [wal EXCEPT ![n] = p.wal]
          /\ IF p.err
             THEN /\ ret' = Ret(n, "delete", id, EmptyMap, "persist")
                  /\ pending' = [pending EXCEPT ![n] = Unlinked(@, {id})]
                  /\ UNCHANGED <<published, events, acked>>
             ELSE /\ published' = [published EXCEPT ![n] =
                         publishMessage(@, DBMessage("delete", id, id), pubOk)]
                  /\ events' = [events EXCEPT ![n] =
                         triggerEvent(@, "delete", Users, id)]
                  /\ ret' = Ret(n, "delete", id, EmptyMap, "none")
                  /\ acked' = [acked EXCEPT ![n] = Put(@, id, Gone)]
                  /\ pending' = [pending EXCEPT ![n] = Unlinked(@, {id}) \cup
                         {Callback(Len(events[n]) + 1, "delete", Users, id,
                                   EmptyMap, FALSE)}]
    /\ now' = now + 1
    /\ UNCHANGED <<backups, nextId, delivered, restoring, taken, observed>>

\* Database.DeleteDocument
DeleteDocument(n, id, io, pubOk) ==
    /\ IF id \notin DOMAIN documents[n]
       THEN /\ ret' = Ret(n, "delete", id, EmptyMap, "notfound")
            /\ UNCHANGED <<documents, files, wal, published, events, acked,
                           pending>>
       ELSE LET collection == documents[n][id].collection
                p == PersistDelete(files[n], wal[n], id, io)
            IN /\ documents' = [documents EXCEPT ![n] = Remove(@, id)]
               /\ files' = [files EXCEPT ![n] = p.files]
               /\ wal' = [wal EXCEPT ![n] = p.wal]
               /\ IF p.err
                  THEN /\ ret' = Ret(n, "delete", id, EmptyMap, "persist")
                       /\ pending' = [pending EXCEPT ![n] = Unlinked(@, {id})]
                       /\ UNCHANGED <<published, events, acked>>
                  ELSE /\ published' = [published EXCEPT ![n] =
                              publishMessage(@, DBMessage("delete", id, id), pubOk)]
                       /\ events' = [events EXCEPT ![n] =
                              triggerEvent(@, "delete", collection, id)]
                       /\ ret' = Ret(n, "delete", id, EmptyMap, "none")
                       /\ acked' = [acked EXCEPT ![n] = Put(@, id, Gone)]
                       /\ pending' = [pending EXCEPT ![n] =
                              Unlinked(@, {id}) \cup
                              {Callback(Len(events[n]) + 1, "delete",
                                        collection, id, documents[n][id],
                                        FALSE)}]
    /\ now' = now + 1
    /\ UNCHANGED <<backups, nextId, delivered, restoring, taken, observed>>

\* NewDatabaseWithPersistence on the data_dir the node has been using: the
\* node was closed and is opened again.
Restart(n) ==
    /\ restoring[n] = Idle
    /\ documents' = [documents EXCEPT ![n] =
          ReplayTransactions(LoadAllDocuments(files[n]), wal[n])]
    /\ ret' = Ret(n, "restart", NoId, EmptyMap, "none")
    /\ pending' = [pending EXCEPT ![n] = {}]
    /\ UNCHANGED <<files, wal, backups, nextId, now, published, delivered,
                   events, restoring, acked, taken, observed>>

\* Database.CreateBackup
CreateBackup(n) ==
    /\ LET name == BackupName(now)
       IN /\ backups' = [backups EXCEPT ![n] =
                PersistCreateBackup(@, files[n], wal[n], name)]
          /\ taken' = [taken EXCEPT ![n] = Put(@, name, documents[n])]
          /\ ret' = Ret(n, "backup", <<"backup", name>>, EmptyMap, "none")
    /\ now' = now + 1
    /\ UNCHANGED <<documents, files, wal, nextId, published, delivered, events,
                   restoring, acked, pending, observed>>

\* Database.RestoreFromBackup, first part: persistence.RestoreFromBackup, under
\* the persistence manager's mutex only.
RestoreDisk(n, name) ==
    /\ restoring[n] = Idle
    /\ LET p == PersistRestore(backups[n], files[n], wal[n], name)
       IN /\ files' = [files EXCEPT ![n] = p.files]
          /\ wal' = [wal EXCEPT ![n] = p.wal]
          /\ IF p.err
             THEN /\ ret' = Ret(n, "restore", <<"backup", name>>, EmptyMap, "notfound")
                  /\ UNCHANGED restoring
             ELSE /\ ret' = Ret(n, "restore_disk", <<"backup", name>>, EmptyMap, "none")
                  /\ restoring' = [restoring EXCEPT ![n] =
                         [pc |-> "load", name |-> name, loaded |-> EmptyMap]]
    /\ UNCHANGED <<documents, backups, nextId, now, published, delivered, events,
                   acked, taken, pending, observed>>

\* Database.RestoreFromBackup, second part: persistence.LoadAllDocuments, under
\* the persistence manager's mutex only.
RestoreLoad(n) ==
    /\ restoring[n].pc = "load"
    /\ restoring' = [restoring EXCEPT ![n] =
          [@ EXCEPT !.pc = "swap", !.loaded = LoadAllDocuments(files[n])]]
    /\ ret' = Ret(n, "restore_load", <<"backup", restoring[n].name>>, EmptyMap, "none")
    /\ UNCHANGED <<documents, files, wal, backups, nextId, now, published,
                   delivered, events, acked, taken, pending, observed>>

\* Database.RestoreFromBackup, last part: db.documents = documents under the
\* store's mutex, and return.
RestoreSwap(n) ==
    /\ restoring[n].pc = "swap"
    /\ documents' = [documents EXCEPT ![n] = restoring[n].loaded]
    /\ restoring' = [restoring EXCEPT ![n] = Idle]
    /\ ret' = Ret(n, "restore", <<"backup", restoring[n].name>>, EmptyMap, "none")
    /\ pending' = [pending EXCEPT ![n] = Unlinked(@, Ids)]
    /\ UNCHANGED <<files, wal, backups, nextId, now, published, delivered,
                   events, acked, taken, observed>>

\* Database.RestoreFromBackup while no other goroutine uses the store.
RestoreFromBackup(n, name) ==
    /\ restoring[n] = Idle
    /\ LET p == PersistRestore(backups[n], files[n], wal[n], name)
       IN /\ files' = [files EXCEPT ![n] = p.files]
          /\ wal' = [wal EXCEPT ![n] = p.wal]
          /\ IF p.err
             THEN /\ ret' = Ret(n, "restore", <<"backup", name>>, EmptyMap, "notfound")
                  /\ UNCHANGED <<documents, pending>>
             ELSE /\ ret' = Ret(n, "restore", <<"backup", name>>, EmptyMap, "none")
                  /\ documents' = [documents EXCEPT ![n] = LoadAllDocuments(p.files)]
                  /\ pending' = [pending EXCEPT ![n] = Unlinked(@, Ids)]
    /\ UNCHANGED <<backups, nextId, now, published, delivered, events,
                   restoring, acked, taken, observed>>

\* The goroutine of a started callback runs, at whatever moment the scheduler
\* picks: the callback reads the document it was given (WSServer.PublishEvent
\* serialises it for the subscribers); found is what a GetDocument(id) made by
\* the callback at that moment answers.
RunCallback(n, c) ==
    /\ c \in pending[n]
    /\ pending' = [pending EXCEPT ![n] = @ \ {c}]
    /\ observed' = [observed EXCEPT ![n] = Append(@,
          [seq |-> c.seq, type |-> c.type, collection |-> c.collection,
           id |-> c.id, document |-> c.doc, committed |-> c.committed,
           found |-> GetDocument(n, c.id).err = "none"])]
    /\ ret' = Ret(n, "callback", c.id, EmptyMap, "none")
    /\ UNCHANGED <<documents, files, wal, backups, nextId, now, published,
                   delivered, events, restoring, taken, acked>>

\* DBSync.SyncAllDocuments: the documents are collected under the read lock,
\* in the order the map iteration gives (order), and a create is published for
\* each; a publication that fails (lost) is logged and the loop goes on.
SyncAllDocuments(n, order, lost) ==
    /\ Len(order) = Cardinality(DOMAIN documents[n])
    /\ {order[i] : i \in 1 .. Len(order)} = DOMAIN documents[n]
    /\ LET sent == SelectSeq(order, LAMBDA id : id \notin lost)
       IN published' = [published EXCEPT ![n] = @ \o
              [i \in 1 .. Len(sent) |->
                  DBMessage("create", documents[n][sent[i]], sent[i])]]
    /\ ret' = Ret(n, "sync", NoId, EmptyMap, "none")
    /\ UNCHANGED <<documents, files, wal, backups, nextId, now, delivered,
                   events, restoring, taken, acked, pending, observed>>

\* DBSync.listenForUpdates, one turn of the loop: the next message of the peer
\* (a node's own messages are skipped) is put in the map as it is and persisted;
\* an error of the persistence manager is logged. Nothing is published and no
\* event is dispatched.
listenForUpdates(n, io) ==
    /\ delivered[n] < Len(published[Peer(n)])
    /\ LET msg == published[Peer(n)][delivered[n] + 1]
       IN IF msg.operation = "delete"
          THEN LET id == msg.document_id
                   known == id \in DOMAIN documents[n]
                   p == IF known
                        THEN PersistDelete(files[n], wal[n], id, io)
                        ELSE [files |-> files[n], wal |-> wal[n], err |-> FALSE]
               IN /\ documents' = [documents EXCEPT ![n] = Remove(@, id)]
                  /\ files' = [files EXCEPT ![n] = p.files]
                  /\ wal' = [wal EXCEPT ![n] = p.wal]
                  /\ pending' = [pending EXCEPT ![n] = Unlinked(@, {id})]
                  /\ ret' = Ret(n, "listen", id, EmptyMap,
                                IF p.err THEN "persist" ELSE "none")
          ELSE LET doc == msg.document
                   p == IF msg.operation = "create"
                        THEN SaveDocument(files[n], wal[n], doc, io)
                        ELSE PersistUpdate(files[n], wal[n], doc, io)
               IN /\ documents' = [documents EXCEPT ![n] = Put(@, doc.id, doc)]
                  /\ files' = [files EXCEPT ![n] = p.files]
                  /\ wal' = [wal EXCEPT ![n] = p.wal]
                  /\ pending' = [pending EXCEPT ![n] = Unlinked(@, {doc.id})]
                  /\ ret' = Ret(n, "listen", doc.id, doc.data,
                                IF p.err THEN "persist" ELSE "none")
    /\ delivered' = [delivered EXCEPT ![n] = @ + 1]
    /\ UNCHANGED <<backups, nextId, now, published, events, restoring, taken,
                   acked, observed>>

\* ------------------------------------------------------------ sync manager

\* collections := []string{"users", "documents", "settings"}
SyncCollections == <<"users", "documents", "settings">>

\* DefaultSyncConfig.ExcludedCollections
ExcludedCollections == {"_system"}

\* type SyncRequest struct
SyncRequest(nodeID, requestType, batchSize, requestID) ==
    [node_id |-> nodeID, request_type |-> requestType,
     batch_size |-> batchSize, request_id |-> requestID]

\* type SyncResponse struct
SyncResponse(nodeID, requestID, docs, hasMore) ==
    [node_id |-> nodeID, request_id |-> requestID, success |-> TRUE,
     documents |-> docs, documents_count |-> Len(docs),
     has_more_documents |-> hasMore, next_batch_token |-> ""]

\* The place of a collection in the list handleFullSyncRequest goes through,
\* 0 for a collection that is not in it or is excluded.
CollectionRank(collection) ==
    IF collection \in ExcludedCollections
       \/ \A i \in DOMAIN SyncCollections : SyncCollections[i] # collection
    THEN 0
    ELSE CHOOSE i \in DOMAIN SyncCollections : SyncCollections[i] = collection

\* Database.GetAllDocuments over the collections of the list: the ids of the
\* documents handleFullSyncRequest collects.
Collected(n) ==
    {id \in DOMAIN documents[n] : CollectionRank(documents[n][id].collection) > 0}

\* SyncManager.handleFullSyncRequest: allDocuments holds the documents of the
\* listed collections, collection after collection and within a collection in
\* the order of the map iteration (order); the first batch_size of them are
\* sent, has_more is set when there are more, and no token is generated.
handleFullSyncRequest(n, request, order) ==
    LET toSend == IF Len(order) > request.batch_size
                  THEN SubSeq(order, 1, request.batch_size)
                  ELSE order
    IN SyncResponse(n, request.request_id,
                    [i \in 1 .. Len(toSend) |-> documents[n][toSend[i]]],
                    Len(order) > request.batch_size)

\* SyncManager.performFullSync, for its one peer: the full request is built and
\* handed to sendSyncRequest.
performFullSync(n) ==
    /\ syncRequests' = Append(syncRequests,
          SyncRequest(n, "full", BatchSize, Len(syncRequests) + 1))
    /\ ret' = Ret(n, "full_sync", NoId, EmptyMap, "none")
    /\ UNCHANGED <<syncResponses, handled>>
    /\ UNCHANGED storeVars

\* SyncManager.handleSyncRequest on the next request: a node's own request is
\* ignored, the request of the peer is answered and the response handed to
\* sendSyncResponse.
handleSyncRequest(n, order) ==
    /\ handled[n].requests < Len(syncRequests)
    /\ LET request == syncRequests[handled[n].requests + 1]
       IN IF request.node_id = n
          THEN UNCHANGED syncResponses
          ELSE /\ Len(order) = Cardinality(Collected(n))
               /\ {order[i] : i \in 1 .. Len(order)} = Collected(n)
               /\ \A i, j \in 1 .. Len(order) :
                     i < j => CollectionRank(documents[n][order[i]].collection)
                              <= CollectionRank(documents[n][order[j]].collection)
               /\ syncResponses' = Append(syncResponses,
                     handleFullSyncRequest(n, request, order))
    /\ handled' = [handled EXCEPT ![n].requests = @ + 1]
    /\ ret' = Ret(n, "sync_request", NoId, EmptyMap, "none")
    /\ UNCHANGED syncRequests
    /\ UNCHANGED storeVars

\* SyncManager.handleSyncResponse on the next response, one turn of its loop
\* over the documents (each call of the store takes the store's mutex for
\* itself): a document that exists locally is updated with the incoming data
\* if the incoming updated_at is later and left alone otherwise, a document
\* that does not exist is created from the incoming collection and data. After
\* the last document the handler returns: a response with has_more is followed
\* by no request. A node's own response is ignored.
handleSyncResponse(n, io, pubOk) ==
    /\ handled[n].responses < Len(syncResponses)
    /\ LET response == syncResponses[handled[n].responses + 1]
           k == handled[n].doc + 1
       IN IF response.node_id = n \/ k > Len(response.documents)
          THEN /\ handled' = [handled EXCEPT ![n].responses = @ + 1,
                                             ![n].doc = 0]
               /\ ret' = Ret(n, "sync_response", NoId, EmptyMap, "none")
               /\ UNCHANGED storeVars
          ELSE LET doc == response.documents[k]
               IN /\ handled' = [handled EXCEPT ![n].doc = k]
                  /\ IF GetDocument(n, doc.id).err = "none"
                     THEN IF doc.updated_at > documents[n][doc.id].updated_at
                          THEN UpdateDocument(n, doc.id, doc.data, io, pubOk)
                          ELSE /\ ret' = Ret(n, "sync_response", doc.id,
                                             doc.data, "none")
                               /\ UNCHANGED storeVars
                     ELSE CreateDocument(n, doc.collection, doc.data, io, pubOk)
    /\ UNCHANGED <<syncRequests, syncResponses>>

\* No round is running.
NoRound == {}

\* A round that has just started: the goroutines of its peers are still to
\* call sendSyncRequest, none is stuck, successCount and failCount are 0. The
\* rounds of a node are told apart by id, their place among its rounds.
Round(id, type, peers) ==
    [id |-> id, type |-> type, peers |-> peers, stuck |-> {},
     successCount |-> 0, failCount |-> 0]

\* time.Time{}, what lastSyncByPeer gives for a peer it does not hold: earlier
\* than every reading of the clock.
ZeroTime == 0 - 1

\* PubSubService.JoinTopic called by the application: the topic is joined and
\* kept in topics. The call locks the mutex for writing, which it never gets
\* once a goroutine is stuck on the mutex.
JoinTopic(n, topic) ==
    /\ blocked[n] = {}
    /\ topics' = [topics EXCEPT ![n] = @ \cup {topic}]
    /\ ret' = Ret(n, "join", NoId, EmptyMap, "none")
    /\ UNCHANGED <<syncInProgress, syncStats, lastSyncByPeer, round, blocked>>

\* PubSubService.Publish: the mutex is locked for reading; a topic that is in
\* topics is published on, which succeeds or fails (pubOk); for a topic that is
\* not, JoinTopic is called with the read lock held and waits for the write
\* lock, which cannot be had before the read lock is released. A goroutine
\* arriving while another waits for the write lock waits behind it.
Publish(n, topic, pubOk) ==
    IF topic \notin topics[n] \/ blocked[n] # {}
    THEN "blocked"
    ELSE IF pubOk THEN "sent" ELSE "error"

\* PubSubService.Subscribe called by the application: the mutex is locked for
\* writing, and for a topic that has no subscription JoinTopic is called with
\* the lock held and locks the mutex again, which a sync.RWMutex does not
\* give to the goroutine that holds it already: the call never returns, and
\* the statements behind JoinTopic, which would store the subscription, are
\* never reached, so that no topic ever has a subscription. A call arriving
\* while a goroutine is stuck on the mutex waits for the lock as well.
Subscribe(n, topic) ==
    /\ blocked' = [blocked EXCEPT ![n] = @ \cup {<<0, topic>>}]
    /\ ret' = Ret(n, "subscribe", NoId, [topic |-> topic], "blocked")
    /\ UNCHANGED <<syncInProgress, syncStats, lastSyncByPeer, round, topics>>

\* The start of performIncrementalSync and of performFullSync, up to
\* wg.Wait(), inProgress being what the function reads in syncInProgress: it
\* returns at once when a round is in progress or when no peer is connected
\* (peers); otherwise the round is counted and one goroutine is started for
\* each peer.
startRound(n, type, peers, inProgress) ==
    /\ IF inProgress \/ peers = {}
       THEN UNCHANGED <<syncInProgress, syncStats, round>>
       ELSE /\ syncInProgress' = [syncInProgress EXCEPT ![n] = TRUE]
            /\ syncStats' = [syncStats EXCEPT ![n].total = @ + 1,
                                              ![n][type] = @ + 1]
            /\ round' = [round EXCEPT ![n] =
                            @ \cup {Round(syncStats[n].total + 1, type, peers)}]
    /\ ret' = Ret(n, type, NoId, EmptyMap,
                  IF inProgress THEN "in_progress"
                  ELSE IF peers = {} THEN "no_peers" ELSE "none")
    /\ UNCHANGED <<lastSyncByPeer, topics, blocked>>

\* A slip for performIncrementalSync: syncInProgress is not looked at.
performIncrementalSyncUnchecked(n, peers) ==
    startRound(n, "incremental", peers, FALSE)

\* SyncManager.performIncrementalSync, called by its ticker.
performIncrementalSync(n, peers) ==
    startRound(n, "incremental", peers, syncInProgress[n])

\* SyncManager.performFullSync, called by its ticker, as a round with its
\* flag, its statistics and its goroutines.
performFullSyncRound(n, peers) ==
    startRound(n, "full", peers, syncInProgress[n])

\* The goroutine the round r of node n starts for peer p: the request is
\* built, an incremental one with the stored last-sync time of p, and given to
\* sendSyncRequest, which publishes it on "sync_request"; an error counts as a
\* failure, otherwise the last-sync time of p is set to time.Now() and a
\* success is counted. When the last goroutine returns, wg.Wait() returns: the
\* counts are added to the statistics and the deferred function clears
\* syncInProgress. A goroutine that is stuck in Publish never returns.
sendSyncRequest(n, r, p, pubOk) ==
    /\ r \in round[n]
    /\ p \in r.peers
    /\ LET lastSync == IF p \in DOMAIN lastSyncByPeer[n]
                       THEN lastSyncByPeer[n][p] ELSE ZeroTime
           plain == SyncRequest(n, r.type, BatchSize, Len(syncRequests) + 1)
           request == IF r.type = "incremental"
                      THEN plain @@ [last_sync_time |-> lastSync] ELSE plain
           outcome == Publish(n, "sync_request", pubOk)
           left == [r EXCEPT
                      !.peers = @ \ {p},
                      !.stuck = IF outcome = "blocked" THEN @ \cup {p} ELSE @,
                      !.successCount = @ + (IF outcome = "sent" THEN 1 ELSE 0),
                      !.failCount = @ + (IF outcome = "error" THEN 1 ELSE 0)]
       IN /\ blocked' = [blocked EXCEPT ![n] =
                IF outcome = "blocked" THEN @ \cup {<<r.id, p>>} ELSE @]
          /\ syncRequests' = IF outcome = "sent"
                             THEN Append(syncRequests, request)
                             ELSE syncRequests
          /\ lastSyncByPeer' = [lastSyncByPeer EXCEPT ![n] =
                IF outcome = "sent" THEN Put(@, p, now) ELSE @]
          /\ now' = IF outcome = "sent" THEN now + 1 ELSE now
          /\ IF left.peers = {} /\ left.stuck = {}
             THEN /\ syncStats' = [syncStats EXCEPT
                         ![n].successful = @ + left.successCount,
                         ![n].failed = @ + left.failCount]
                  /\ syncInProgress' = [syncInProgress EXCEPT ![n] = FALSE]
                  /\ round' = [round EXCEPT ![n] = @ \ {r}]
             ELSE /\ round' = [round EXCEPT ![n] = (@ \ {r}) \cup {left}]
                  /\ UNCHANGED <<syncStats, syncInProgress>>
          /\ ret' = Ret(n, "send", NoId, [peer |-> p],
                        IF outcome = "sent" THEN "none" ELSE outcome)
    /\ UNCHANGED topics

\* ------------------------------------------------------------ query engine

\* The values of a document's data, any: a string is the sequence of its
\* bytes, the digits '0' .. '9' written 0 .. 9 and the letters 'a' .. 'z'
\* written 10 .. 35, which keeps the order of the bytes.
QString(s) == [type |-> "string", val |-> s]

QInt(i) == [type |-> "int", val |-> <<i>>]

QBool(b) == [type |-> "bool", val |-> <<IF b THEN 1 ELSE 0>>]

QList(l) == [type |-> "list", val |-> l]

QObject(m) == [type |-> "object", val |-> m]

\* No Execute yet.
NoQuery == [node |-> "none"]

\* strings.Compare on two strings: -1, 0 or 1, by bytes, a prefix first.
RECURSIVE StringsCompare(_, _)
StringsCompare(a, b) ==
    IF a = <<>> /\ b = <<>> THEN 0
    ELSE IF a = <<>> THEN 0 - 1
    ELSE IF b = <<>> THEN 1
    ELSE IF Head(a) < Head(b) THEN 0 - 1
    ELSE IF Head(a) > Head(b) THEN 1
    ELSE StringsCompare(Tail(a), Tail(b))

\* The decimal digits of a natural number.
RECURSIVE Digits(_)
Digits(i) == IF i < 10 THEN <<i>> ELSE Append(Digits(i \div 10), i % 10)

\* fmt.Sprintf("%v", v) for a string, an int (not negative) and a bool.
Sprint(v) ==
    CASE v.type = "string" -> v.val
      [] v.type = "int" -> Digits(v.val[1])
      [] v.type = "bool" -> IF v.val[1] = 1 THEN <<29, 27, 30, 14>>
                                            ELSE <<15, 10, 21, 28, 14>>

\* compareValues: values of different types are compared as the strings
\* Sprintf("%v") makes of them; strings by bytes, ints by size, false before
\* true.
compareValues(a, b) ==
    IF a.type # b.type THEN StringsCompare(Sprint(a), Sprint(b))
    ELSE CASE a.type = "string" -> StringsCompare(a.val, b.val)
           [] a.type = "int" -> IF a.val[1] < b.val[1] THEN 0 - 1
                                ELSE IF a.val[1] > b.val[1] THEN 1 ELSE 0
           [] a.type = "bool" -> IF a.val[1] < b.val[1] THEN 0 - 1
                                 ELSE IF a.val[1] > b.val[1] THEN 1 ELSE 0
           [] OTHER -> StringsCompare(Sprint(a), Sprint(b))

\* getNestedFieldValue: field is the dotted path, here the sequence of its
\* parts (what strings.Split(field, ".") returns). The error of a path that
\* does not resolve, a part missing or a part before the last not a map.
Unresolved == [type |-> "error", val |-> <<>>]

RECURSIVE getNestedFieldValue(_, _)
getNestedFieldValue(data, field) ==
    IF Head(field) \notin DOMAIN data THEN Unresolved
    ELSE IF Len(field) = 1 THEN data[Head(field)]
    ELSE IF data[Head(field)].type # "object" THEN Unresolved
    ELSE getNestedFieldValue(data[Head(field)].val, Tail(field))

\* getTypeName, as a string.
getTypeName(value) ==
    CASE value.type = "string" -> <<28, 29, 27, 18, 23, 16>>
      [] value.type = "int" -> <<18, 23, 29, 14, 16, 14, 27>>
      [] value.type = "bool" -> <<11, 24, 24, 21, 14, 10, 23>>
      [] value.type = "list" -> <<10, 27, 27, 10, 34>>
      [] value.type = "object" -> <<24, 11, 19, 14, 12, 29>>

\* strings.HasPrefix
HasPrefix(s, prefix) ==
    Len(prefix) <= Len(s) /\ SubSeq(s, 1, Len(prefix)) = prefix

\* strings.HasSuffix
HasSuffix(s, suffix) ==
    Len(suffix) <= Len(s)
    /\ SubSeq(s, Len(s) - Len(suffix) + 1, Len(s)) = suffix

\* strings.Contains
Contains(s, substr) ==
    \E i \in 0 .. Len(s) - Len(substr) :
        SubSeq(s, i + 1, i + Len(substr)) = substr

\* type QueryCondition struct
QueryCondition(field, operator, value) ==
    [Field |-> field, Operator |-> operator, Value |-> value]

\* type LogicalCondition struct
LogicalCondition(operator, conditions) ==
    [Operator |-> operator, Conditions |-> conditions]

\* Query.matchesQueryCondition. A regular expression is a pattern without
\* metacharacters, which regexp.MatchString finds anywhere in the string.
matchesQueryCondition(data, condition) ==
    LET fieldValue == getNestedFieldValue(data, condition.Field)
        value == condition.Value
        op == condition.Operator
        cmp == compareValues(fieldValue, value)
        listed == /\ value.type = "list"
                  /\ \E i \in DOMAIN value.val :
                        compareValues(fieldValue, value.val[i]) = 0
        strings == fieldValue.type = "string" /\ value.type = "string"
    IN IF fieldValue.type = "error"
       THEN op = "exists" /\ value.val[1] = 0
       ELSE CASE op = "exists" -> value.val[1] = 1
              [] op = "eq" -> cmp = 0
              [] op = "ne" -> cmp # 0
              [] op = "gt" -> cmp > 0
              [] op = "gte" -> cmp >= 0
              [] op = "lt" -> cmp < 0
              [] op = "lte" -> cmp <= 0
              [] op = "in" -> listed
              [] op = "nin" -> ~listed
              [] op = "regex" -> strings /\ Contains(fieldValue.val, value.val)
              [] op = "type" -> /\ value.type = "string"
                                /\ getTypeName(fieldValue) = value.val
              [] op = "contains" ->
                    strings /\ Contains(fieldValue.val, value.val)
              [] op = "startswith" ->
                    strings /\ HasPrefix(fieldValue.val, value.val)
              [] op = "endswith" ->
                    strings /\ HasSuffix(fieldValue.val, value.val)
              [] OTHER -> FALSE

\* Query.matchesCondition and Query.matchesLogicalCondition: a condition is a
\* QueryCondition or a LogicalCondition.
RECURSIVE matchesCondition(_, _)
matchesCondition(data, condition) ==
    IF "Field" \in DOMAIN condition
    THEN matchesQueryCondition(data, condition)
    ELSE LET cs == condition.Conditions
         IN CASE condition.Operator = "and" ->
                    \A i \in DOMAIN cs : matchesCondition(data, cs[i])
              [] condition.Operator = "or" ->
                    \E i \in DOMAIN cs : matchesCondition(data, cs[i])
              [] condition.Operator = "not" ->
                    Len(cs) > 0 /\ ~matchesCondition(data, cs[1])
              [] OTHER -> FALSE

\* docs[i], docs[j] = docs[j], docs[i]
Swap(docs, i, j) == [docs EXCEPT ![i] = docs[j], ![j] = docs[i]]

\* Query.sortDocuments, from the step (i, j) of its two loops on: only the
\* first sort option is used; a document without the field is exchanged with
\* a later one that has it; two documents with the field are exchanged when
\* they are out of order.
RECURSIVE sortFrom(_, _, _, _)
sortFrom(docs, sortOption, i, j) ==
    IF i > Len(docs) - 1 THEN docs
    ELSE IF j > Len(docs) THEN sortFrom(docs, sortOption, i + 1, i + 2)
    ELSE LET valueI == getNestedFieldValue(docs[i].data, sortOption.Field)
             valueJ == getNestedFieldValue(docs[j].data, sortOption.Field)
             exchange ==
                IF valueI.type = "error" THEN valueJ.type # "error"
                ELSE IF valueJ.type = "error" THEN FALSE
                ELSE \/ /\ sortOption.Direction = "asc"
                        /\ compareValues(valueI, valueJ) > 0
                     \/ /\ sortOption.Direction = "desc"
                        /\ compareValues(valueI, valueJ) < 0
         IN sortFrom(IF exchange THEN Swap(docs, i, j) ELSE docs,
                     sortOption, i, j + 1)

\* Query.sortDocuments
sortDocuments(docs, sort) ==
    IF Len(sort) > 0 THEN sortFrom(docs, sort[1], 1, 2) ELSE docs

\* Database.GetAllDocuments: the documents of the collection, in the order in
\* which the map is iterated (order).
GetAllDocuments(n, collection, order) ==
    LET OfCollection(id) == documents[n][id].collection = collection
        ids == SelectSeq(order, OfCollection)
    IN [i \in DOMAIN ids |-> documents[n][ids[i]]]

\* type Query struct
Query(collection, condition, sort, skip, limit) ==
    [Collection |-> collection, Condition |-> condition,
     Options |-> [Sort |-> sort, Skip |-> skip, Limit |-> limit]]

\* Query.Execute: the documents of the collection that match the condition,
\* sorted when there is a sort option, without the first Skip of them when
\* Skip is positive and less than their number, and of those the first Limit
\* when Limit is positive and less than their number.
Execute(n, q, order) ==
    LET docs == GetAllDocuments(n, q.Collection, order)
        Matches(doc) == matchesCondition(doc.data, q.Condition)
        filtered == SelectSeq(docs, Matches)
        sorted == IF Len(q.Options.Sort) > 0
                  THEN sortDocuments(filtered, q.Options.Sort) ELSE filtered
        skipped == IF q.Options.Skip > 0 /\ q.Options.Skip < Len(sorted)
                   THEN SubSeq(sorted, q.Options.Skip + 1, Len(sorted))
                   ELSE sorted
        results == IF q.Options.Limit > 0 /\ q.Options.Limit < Len(skipped)
                   THEN SubSeq(skipped, 1, q.Options.Limit)
                   ELSE skipped
    IN /\ queried' = [node |-> n, query |-> q, docs |-> docs,
                      results |-> results]
       /\ ret' = Ret(n, "query", NoId, EmptyMap, "none")
       /\ UNCHANGED storeVars

\* ----------------------------------------------------------------- indexes

\* The byte '|', after the letters.
Bar == 36

\* Document.ID as a string: a letter for the node and a digit.
IdString(id) == <<IF id[1] = "A" THEN 10 ELSE 11, id[2]>>

\* NewIndex: a field is the sequence of the parts of its dotted path.
NewIndex(name, collection, fields, indexType, t) ==
    [Name |-> name, Collection |-> collection, Fields |-> fields,
     Type |-> indexType, Unique |-> indexType = "unique",
     CreatedAt |-> t, UpdatedAt |-> t, Data |-> EmptyMap]

\* getFieldValue of index.go on a map: the value at the path, or an error
\* when a part is missing or a part before the last is not a map.
RECURSIVE getFieldValue(_, _)
getFieldValue(data, field) ==
    IF Head(field) \notin DOMAIN data THEN Unresolved
    ELSE IF Len(field) = 1 THEN data[Head(field)]
    ELSE IF data[Head(field)].type # "object" THEN Unresolved
    ELSE getFieldValue(data[Head(field)].val, Tail(field))

\* strings.Join(values, "|")
RECURSIVE Join(_)
Join(values) ==
    IF values = <<>> THEN <<>>
    ELSE IF Len(values) = 1 THEN values[1]
    ELSE values[1] \o <<Bar>> \o Join(Tail(values))

\* Index.getIndexValue: the key of the document, a string: the id for the
\* field "_id", else Sprintf("%v") of the value of the field; for several
\* fields these joined with "|"; an error without fields or when a field
\* does not resolve.
getIndexValue(idx, doc) ==
    LET raw(field) == IF field = <<"_id">> THEN QString(IdString(doc.id))
                      ELSE getFieldValue(doc.data, field)
        failed == \/ Len(idx.Fields) = 0
                  \/ \E i \in DOMAIN idx.Fields :
                        raw(idx.Fields[i]).type = "error"
    IN IF failed THEN [value |-> <<>>, err |-> "field"]
       ELSE [value |-> Join([i \in DOMAIN idx.Fields |->
                                Sprint(raw(idx.Fields[i]))]),
             err |-> "none"]

\* The ids idx.Data holds for a key: idx.Data[value], nil for a missing key.
IdsOf(idx, value) ==
    IF value \in DOMAIN idx.Data THEN idx.Data[value] ELSE <<>>

\* x is an element of the sequence s.
InSeq(x, s) == \E i \in DOMAIN s : s[i] = x

\* Index.AddDocument at time t: the index afterwards and the error.
AddDocument(idx, doc, t) ==
    LET key == getIndexValue(idx, doc)
        value == key.value
    IN IF key.err # "none" THEN [idx |-> idx, err |-> key.err]
       ELSE IF idx.Unique /\ Len(IdsOf(idx, value)) > 0
       THEN [idx |-> idx, err |-> "unique"]
       ELSE IF InSeq(doc.id, IdsOf(idx, value))
       THEN [idx |-> [idx EXCEPT !.Data = Put(@, value, IdsOf(idx, value))],
             err |-> "none"]
       ELSE [idx |-> [idx EXCEPT
                        !.Data = Put(@, value, Append(IdsOf(idx, value), doc.id)),
                        !.UpdatedAt = t],
             err |-> "none"]

\* Index.RemoveDocument at time t: the id is taken out of the ids of every
\* key, and a key left without ids is deleted.
RemoveDocument(idx, docID, t) ==
    LET Other(id) == id # docID
        kept == {value \in DOMAIN idx.Data :
                    SelectSeq(idx.Data[value], Other) # <<>>}
    IN [idx EXCEPT
          !.Data = [value \in kept |-> SelectSeq(idx.Data[value], Other)],
          !.UpdatedAt = t]

\* IndexManager.CreateIndex
CreateIndex(name, collection, fields, indexType) ==
    /\ IF name \in DOMAIN indexes
       THEN /\ UNCHANGED indexes
            /\ ret' = Ret("A", "create_index", NoId, [index |-> name], "exists")
       ELSE /\ indexes' = Put(indexes, name,
                             NewIndex(name, collection, fields, indexType, now))
            /\ ret' = Ret("A", "create_index", NoId, [index |-> name], "none")
    /\ now' = now + 1
    /\ UNCHANGED storeButClock

\* Index.AddDocument on the index of that name, with the document of that id
\* of the store.
IndexAddDocument(name, id) ==
    /\ name \in DOMAIN indexes
    /\ id \in DOMAIN documents["A"]
    /\ LET r == AddDocument(indexes[name], documents["A"][id], now)
       IN /\ indexes' = [indexes EXCEPT ![name] = r.idx]
          /\ ret' = Ret("A", "index_add", id, [index |-> name], r.err)
    /\ now' = now + 1
    /\ UNCHANGED storeButClock

\* Index.RemoveDocument on the index of that name.
IndexRemoveDocument(name, id) ==
    /\ name \in DOMAIN indexes
    /\ indexes' = [indexes EXCEPT ![name] = RemoveDocument(@, id, now)]
    /\ ret' = Ret("A", "index_remove", id, [index |-> name], "none")
    /\ now' = now + 1
    /\ UNCHANGED storeButClock

\* Index.UpdateDocument on the index of that name: RemoveDocument, then
\* AddDocument.
IndexUpdateDocument(name, id) ==
    /\ name \in DOMAIN indexes
    /\ id \in DOMAIN documents["A"]
    /\ LET r == AddDocument(RemoveDocument(indexes[name], id, now),
                            documents["A"][id], now)
       IN /\ indexes' = [indexes EXCEPT ![name] = r.idx]
          /\ ret' = Ret("A", "index_update", id, [index |-> name], r.err)
    /\ now' = now + 1
    /\ UNCHANGED storeButClock

\* IndexManager.AddDocument from the i-th index of names on: index after
\* index, returning at the first error.
RECURSIVE AddToIndexes(_, _, _, _, _)
AddToIndexes(ixs, names, i, doc, t) ==
    IF i > Len(names) THEN [indexes |-> ixs, err |-> "none"]
    ELSE LET r == AddDocument(ixs[names[i]], doc, t)
         IN IF r.err # "none" THEN [indexes |-> ixs, err |-> r.err]
            ELSE AddToIndexes([ixs EXCEPT ![names[i]] = r.idx],
                              names, i + 1, doc, t)

\* IndexManager.GetIndexesForCollection, as names.
GetIndexesForCollection(collection) ==
    {name \in DOMAIN indexes : indexes[name].Collection = collection}

\* IndexManager.AddDocument with the document of that id of the store: the
\* indexes of its collection in the order in which the map is iterated
\* (order).
IndexManagerAddDocument(id, order) ==
    /\ id \in DOMAIN documents["A"]
    /\ LET r == AddToIndexes(indexes, order, 1, documents["A"][id], now)
       IN /\ indexes' = r.indexes
          /\ ret' = Ret("A", "manager_add", id, EmptyMap, r.err)
    /\ now' = now + 1
    /\ UNCHANGED storeButClock

\* ------------------------------------------------------------------- cache

\* NewCache has not been called.
NoCache == [maxSize |-> 0 - 1]

\* type CacheItem struct
CacheItem(key, value, expiresAt) ==
    [Key |-> key, Value |-> value, ExpiresAt |-> expiresAt]

\* A slip for CacheItem.IsExpired: nothing ever expires.
IsExpiredNever(item, t) == FALSE

\* CacheItem.IsExpired at time t.
IsExpired(item, t) == item.ExpiresAt # ZeroTime /\ t > item.ExpiresAt

\* The keys of c.items.
CacheKeys(c) == {c.itemsList[i].Key : i \in DOMAIN c.itemsList}

\* c.items[key].Value.(*CacheItem)
ItemOf(c, key) ==
    LET i == CHOOSE i \in DOMAIN c.itemsList : c.itemsList[i].Key = key
    IN c.itemsList[i]

\* Cache.removeElement of the element of that key.
removeElement(c, key) ==
    LET Other(item) == item.Key # key
    IN [c EXCEPT !.itemsList = SelectSeq(@, Other),
                 !.accessCount = Remove(@, key),
                 !.stats.TotalItems = @ - 1]

\* The keys Cache.evict can find as minKey, iterating accessCount in one
\* order or another: those with the lowest count.
MinKeys(c) ==
    {key \in DOMAIN c.accessCount :
        \A other \in DOMAIN c.accessCount :
            c.accessCount[key] <= c.accessCount[other]}

\* Cache.evict: the element at the back of the list under lru and fifo, the
\* element of minKey under lfu.
evict(c, minKey) ==
    LET key == IF c.evictionPolicy = "lfu" THEN minKey
               ELSE c.itemsList[Len(c.itemsList)].Key
    IN [removeElement(c, key) EXCEPT !.stats.Evictions = @ + 1]

\* NewCache with the options WithMaxSize, WithDefaultTTL and
\* WithEvictionPolicy.
NewCache(maxSize, defaultTTL, evictionPolicy) ==
    /\ cache = NoCache
    /\ cache' = [itemsList |-> <<>>, accessCount |-> EmptyMap,
                 maxSize |-> maxSize, defaultTTL |-> defaultTTL,
                 evictionPolicy |-> evictionPolicy,
                 stats |-> [Hits |-> 0, Misses |-> 0, Evictions |-> 0,
                            Expirations |-> 0, TotalItems |-> 0,
                            TotalOperations |-> 0]]
    /\ usage' = EmptyMap
    /\ ret' = Ret("A", "new_cache", NoId, EmptyMap, "none")
    /\ UNCHANGED storeVars

\* Cache.Set(key, value, ttl), ttl = 0 for a call without ttl: an element of
\* that key is replaced and moved to the front; a new one is pushed at the
\* front and, the cache now being over maxSize, evict is called.
Set(key, value, ttl) ==
    /\ cache # NoCache
    /\ LET expiration == IF ttl > 0 THEN now + ttl
                         ELSE IF cache.defaultTTL > 0
                         THEN now + cache.defaultTTL ELSE ZeroTime
           item == CacheItem(key, value, expiration)
           Other(i) == i.Key # key
           pushed == [cache EXCEPT
                        !.itemsList = <<item>> \o SelectSeq(@, Other),
                        !.accessCount = Put(@, key,
                            IF key \in DOMAIN @ THEN @[key] + 1 ELSE 1)]
           added == [pushed EXCEPT !.stats.TotalItems = @ + 1]
           done(c) == [c EXCEPT !.stats.TotalOperations = @ + 1]
       IN IF key \in CacheKeys(cache)
          THEN /\ cache' = done(pushed)
               /\ usage' = [usage EXCEPT ![key].used = now]
          ELSE IF added.maxSize > 0 /\ Len(added.itemsList) > added.maxSize
          THEN \E minKey \in MinKeys(added) :
                  /\ cache' = done(evict(added, minKey))
                  /\ usage' = [k \in CacheKeys(cache') |->
                                  IF k = key THEN [entered |-> now, used |-> now]
                                  ELSE usage[k]]
          ELSE /\ cache' = done(added)
               /\ usage' = Put(usage, key, [entered |-> now, used |-> now])
    /\ ret' = Ret("A", "cache_set", NoId, [key |-> key, value |-> value], "none")
    /\ now' = now + 1
    /\ UNCHANGED storeButClock

\* Cache.Get(key): nil and false for a key that is not there and for an
\* element that has expired, which is removed; else the value and true, the
\* element moved to the front under lru.
Get(key) ==
    /\ cache # NoCache
    /\ IF key \notin CacheKeys(cache)
       THEN /\ cache' = [cache EXCEPT !.stats.Misses = @ + 1,
                                      !.stats.TotalOperations = @ + 1]
            /\ ret' = Ret("A", "cache_get", NoId,
                          [key |-> key, value |-> 0, found |-> FALSE], "missing")
            /\ UNCHANGED usage
       ELSE LET item == ItemOf(cache, key)
                Other(i) == i.Key # key
            IN IF IsExpired(item, now)
               THEN /\ cache' = [removeElement(cache, key) EXCEPT
                                    !.stats.Expirations = @ + 1,
                                    !.stats.Misses = @ + 1,
                                    !.stats.TotalOperations = @ + 1]
                    /\ ret' = Ret("A", "cache_get", NoId,
                                  [key |-> key, value |-> 0, found |-> FALSE],
                                  "expired")
                    /\ usage' = Remove(usage, key)
               ELSE /\ cache' = [cache EXCEPT
                          !.stats.Hits = @ + 1,
                          !.stats.TotalOperations = @ + 1,
                          !.accessCount[key] = @ + 1,
                          !.itemsList = IF cache.evictionPolicy = "lru"
                                        THEN <<item>> \o SelectSeq(@, Other)
                                        ELSE @]
                    /\ ret' = Ret("A", "cache_get", NoId,
                                  [key |-> key, value |-> item.Value,
                                   found |-> TRUE], "none")
                    /\ usage' = [usage EXCEPT ![key].used = now]
    /\ now' = now + 1
    /\ UNCHANGED storeButClock

\* Cache.Delete(key)
Delete(key) ==
    /\ cache # NoCache
    /\ LET c == IF key \in CacheKeys(cache) THEN removeElement(cache, key)
                ELSE cache
       IN cache' = [c EXCEPT !.stats.TotalOperations = @ + 1]
    /\ usage' = IF key \in DOMAIN usage THEN Remove(usage, key) ELSE usage
    /\ ret' = Ret("A", "cache_delete", NoId, [key |-> key], "none")
    /\ now' = now + 1
    /\ UNCHANGED storeButClock

\* Cache.cleanup, called by the ticker of startCleanup: every element that
\* has expired is removed and counted.
cleanup ==
    /\ cache # NoCache
    /\ LET Live(item) == ~(item.ExpiresAt # ZeroTime /\ item.ExpiresAt < now)
           live == SelectSeq(cache.itemsList, Live)
           expired == Len(cache.itemsList) - Len(live)
           keys == {live[i].Key : i \in DOMAIN live}
       IN /\ cache' = [cache EXCEPT
                          !.itemsList = live,
                          !.accessCount = [k \in keys |-> @[k]],
                          !.stats.TotalItems = @ - expired,
                          !.stats.Expirations = @ + expired]
          /\ usage' = [k \in keys |-> usage[k]]
    /\ ret' = Ret("A", "cache_cleanup", NoId, EmptyMap, "none")
    /\ now' = now + 1
    /\ UNCHANGED storeButClock

\* ---------------------------------------------------------- memory manager

\* NewMemoryManager has not been called.
NoManager == [MaxDocuments |-> 0 - 1]

\* NewMemoryManager(database, config) on node A's Database, with
\* config.MemoryLimit = 0 and config.EnableCompression = false.
NewMemoryManager(maxDocuments) ==
    /\ mm = NoManager
    /\ mm' = [MaxDocuments |-> maxDocuments, DocumentCount |-> 0,
              CleanupCount |-> 0, accessTimes |-> EmptyMap,
              documentSizes |-> {}]
    /\ ret' = Ret("A", "new_manager", NoId, EmptyMap, "none")
    /\ UNCHANGED storeVars

\* MemoryManager.TrackDocumentAccess
TrackDocumentAccess(id) ==
    /\ mm # NoManager
    /\ mm' = [mm EXCEPT !.accessTimes = Put(@, id, now)]
    /\ ret' = Ret("A", "track_access", id, EmptyMap, "none")
    /\ now' = now + 1
    /\ UNCHANGED storeButClock

\* MemoryManager.TrackDocumentSize with the document of that id of the store.
TrackDocumentSize(id) ==
    /\ mm # NoManager
    /\ id \in DOMAIN documents["A"]
    /\ mm' = [mm EXCEPT !.accessTimes = Put(@, id, now),
                        !.documentSizes = @ \cup {id}]
    /\ ret' = Ret("A", "track_size", id, EmptyMap, "none")
    /\ now' = now + 1
    /\ UNCHANGED storeButClock

\* The lists the loops of evictLRUDocuments can make of accessTimes: every id
\* once, an older access before a newer one.
OldestFirst(accessTimes) ==
    {accessList \in Orders(DOMAIN accessTimes) :
        \A i, j \in DOMAIN accessList :
            i < j => accessTimes[accessList[i]] <= accessTimes[accessList[j]]}

\* MemoryManager.evictLRUDocuments from the i-th entry of accessList on, on
\* the state s of the map, the disk and the manager: a document that is in the
\* map is saved, the error of SaveDocument dropped, and deleted from the map
\* and from the manager.
RECURSIVE evictFrom(_, _, _, _, _)
evictFrom(s, accessList, i, docsToEvict, io) ==
    IF i > docsToEvict \/ i > Len(accessList) THEN s
    ELSE LET id == accessList[i]
             p == SaveDocument(s.files, s.wal, s.documents[id], io)
         IN IF id \notin DOMAIN s.documents
            THEN evictFrom(s, accessList, i + 1, docsToEvict, io)
            ELSE evictFrom([documents |-> Remove(s.documents, id),
                            files |-> p.files, wal |-> p.wal,
                            mm |-> [s.mm EXCEPT
                                      !.accessTimes = Remove(@, id),
                                      !.documentSizes = @ \ {id}]],
                           accessList, i + 1, docsToEvict, io)

\* MemoryManager.evictLRUDocuments: stats.DocumentCount - MaxDocuments
\* documents are to go, the first of accessList.
evictLRUDocuments(s, accessList, io) ==
    IF s.mm.MaxDocuments <= 0
       \/ s.mm.DocumentCount - s.mm.MaxDocuments <= 0
    THEN s
    ELSE evictFrom(s, accessList, 1,
                   s.mm.DocumentCount - s.mm.MaxDocuments, io)

\* MemoryManager.cleanup on the manager m (compressDocuments returns at
\* once): evictLRUDocuments, then the statistics.
MemoryCleanup(m, accessList, io) ==
    LET s == evictLRUDocuments([documents |-> documents["A"],
                                files |-> files["A"], wal |-> wal["A"],
                                mm |-> m], accessList, io)
    IN /\ documents' = [documents EXCEPT !["A"] = s.documents]
       /\ files' = [files EXCEPT !["A"] = s.files]
       /\ wal' = [wal EXCEPT !["A"] = s.wal]
       /\ mm' = [s.mm EXCEPT
                   !.DocumentCount = Cardinality(DOMAIN s.documents),
                   !.CleanupCount = @ + 1]
       /\ now' = now + 1

\* MemoryManager.checkMemory, called by the ticker of startMemoryCheck: the
\* documents are counted and, when there are more than MaxDocuments, cleanup
\* is called.
checkMemory(io) ==
    /\ mm # NoManager
    /\ LET counted == [mm EXCEPT
                         !.DocumentCount = Cardinality(DOMAIN documents["A"])]
       IN IF counted.MaxDocuments > 0
             /\ counted.DocumentCount > counted.MaxDocuments
          THEN \E accessList \in OldestFirst(mm.accessTimes) :
                  MemoryCleanup(counted, accessList, io)
          ELSE /\ mm' = counted
               /\ UNCHANGED <<documents, files, wal, now>>
    /\ ret' = Ret("A", "check_memory", NoId, EmptyMap, "none")
    /\ UNCHANGED <<backups, nextId, published, delivered, events, restoring,
                   taken, pending, observed, acked>>

\* MemoryManager.ForceCleanup
ForceCleanup(io) ==
    /\ mm # NoManager
    /\ \E accessList \in OldestFirst(mm.accessTimes) :
          MemoryCleanup(mm, accessList, io)
    /\ ret' = Ret("A", "force_cleanup", NoId, EmptyMap, "none")
    /\ UNCHANGED <<backups, nextId, published, delivered, events, restoring,
                   taken, pending, observed, acked>>

\* ------------------------------------------------------------ Database.mutex

\* A sync.RWMutex nobody holds.
Unlocked == [writer |-> "", readers |-> {}]

\* db.mutex.Lock() by goroutine g, the first statement of CreateDocument,
\* UpdateDocument and DeleteDocument and what listenForUpdates does before it
\* writes to the map: the goroutine goes on when nobody holds the mutex.
Lock(n, g) ==
    /\ dbMutex[n] = Unlocked
    /\ dbMutex' = [dbMutex EXCEPT ![n].writer = g]
    /\ ret' = Ret(n, "lock", NoId, [by |-> g], "none")

\* db.mutex.RLock() by goroutine g, the first statement of GetDocument: the
\* goroutine goes on when nobody holds the mutex for writing.
RLock(n, g) ==
    /\ dbMutex[n].writer = ""
    /\ g \notin dbMutex[n].readers
    /\ dbMutex' = [dbMutex EXCEPT ![n].readers = @ \cup {g}]
    /\ ret' = Ret(n, "rlock", NoId, [by |-> g], "none")

\* db.mutex.Unlock(), deferred in the mutators of the store.
Unlock(n, g) ==
    /\ dbMutex[n].writer = g
    /\ dbMutex' = [dbMutex EXCEPT ![n].writer = ""]

\* db.mutex.RUnlock(), deferred in GetDocument.
RUnlock(n, g) ==
    /\ g \in dbMutex[n].readers
    /\ dbMutex' = [dbMutex EXCEPT ![n].readers = @ \ {g}]

\* Database.GetDocument called by a client, behind the RLock.
GetDocumentCall(n, id) ==
    /\ ret' = Ret(n, "get", id, EmptyMap, GetDocument(n, id).err)
    /\ UNCHANGED storeVars

\* ---------------------------------------------------------- WebSocket server

\* The clients that connect to the WebSocket server.
Clients == {1, 2}

\* A client that has not connected has no channel; make(chan []byte, n) is
\* open and empty.
NoChannel == [buf |-> <<>>, closed |-> TRUE]

MakeChan == [buf |-> <<>>, closed |-> FALSE]

\* NewWSServer and Start: no client, the loop of run waiting.
NewWSServer ==
    [clients |-> {},
     send |-> [c \in Clients |-> NoChannel],
     conn |-> [c \in Clients |-> "none"],
     readPump |-> [c \in Clients |-> "none"],
     writePump |-> [c \in Clients |-> "none"],
     panic |-> "none"]

\* WSServer.handleWebSocket for a new connection: the client is made with its
\* send channel and given to run on register, which puts it in clients; the
\* two pumps are started and the welcome message is sent to the channel.
handleWebSocket(c) ==
    /\ hub.panic = "none"
    /\ hub.conn[c] = "none"
    /\ hub' = [hub EXCEPT
                 !.clients = @ \cup {c},
                 !.send[c] = [MakeChan EXCEPT !.buf = <<"welcome">>],
                 !.conn[c] = "open",
                 !.readPump[c] = "reading",
                 !.writePump[c] = "running"]
    /\ ret' = Ret("A", "ws_connect", NoId, [client |-> c], "none")

\* WSServer.PublishEvent and the case of run that receives its message from
\* broadcast: every client in clients is sent the message when its channel
\* has room; the channel of a client without room is closed and the client
\* deleted. A send on a closed channel panics.
PublishEvent ==
    /\ hub.panic = "none"
    /\ LET room(c) == Len(hub.send[c].buf) < SendBuffer
       IN hub' = IF \E c \in hub.clients : hub.send[c].closed
                 THEN [hub EXCEPT !.panic = "send on closed channel"]
                 ELSE [hub EXCEPT
                         !.clients = {c \in @ : room(c)},
                         !.send = [c \in Clients |->
                             IF c \notin hub.clients THEN @[c]
                             ELSE IF room(c)
                             THEN [@[c] EXCEPT !.buf = Append(@, "event")]
                             ELSE [@[c] EXCEPT !.closed = TRUE]]]
    /\ ret' = Ret("A", "ws_publish", NoId, EmptyMap, "none")

\* Client.writePump, one turn of its loop: a message received from send is
\* written to the connection with the messages queued behind it; when send is
\* closed and empty the close message is written and the pump returns; with
\* nothing to receive the ticker has it write a ping. A write that fails
\* (ok false) makes the pump return, and returning closes the connection.
writePump(c, ok) ==
    /\ hub.panic = "none"
    /\ hub.writePump[c] = "running"
    /\ LET ch == hub.send[c]
           returned == [hub EXCEPT !.writePump[c] = "done",
                                   !.conn[c] = "closed"]
       IN hub' = IF ch.buf # <<>>
                 THEN IF ok THEN [hub EXCEPT !.send[c].buf = <<>>]
                      ELSE [returned EXCEPT !.send[c].buf = Tail(@)]
                 ELSE IF ch.closed \/ ~ok THEN returned
                 ELSE hub
    /\ ret' = Ret("A", "ws_write", NoId, [client |-> c],
                  IF ok THEN "none" ELSE "write")

\* Client.readPump, conn.ReadMessage returning: with an error (the client has
\* gone, or the connection is closed) the loop is left for the deferred
\* unregister; with a message the pump goes on to answer it on send ("ping" is
\* answered with a pong, the other types with their response).
ReadMessage(c, msg) ==
    /\ hub.panic = "none"
    /\ hub.readPump[c] = "reading"
    /\ hub' = [hub EXCEPT !.readPump[c] =
                 IF hub.conn[c] = "closed" \/ msg = "error"
                 THEN "unregistering" ELSE "sending"]
    /\ ret' = Ret("A", "ws_read", NoId, [client |-> c],
                  IF hub.conn[c] = "closed" \/ msg = "error"
                  THEN "read" ELSE "none")

\* Client.readPump at c.send <- pongJSON: the send waits while the channel is
\* full, and panics on a closed channel.
sendPong(c) ==
    /\ hub.panic = "none"
    /\ hub.readPump[c] = "sending"
    /\ hub.send[c].closed \/ Len(hub.send[c].buf) < SendBuffer
    /\ hub' = IF hub.send[c].closed
              THEN [hub EXCEPT !.panic = "send on closed channel"]
              ELSE [hub EXCEPT !.send[c].buf = Append(@, "pong"),
                               !.readPump[c] = "reading"]
    /\ ret' = Ret("A", "ws_pong", NoId, [client |-> c],
                  IF hub.send[c].closed THEN "panic" ELSE "none")

\* The deferred function of readPump and the case of run that receives from
\* unregister: a client that is in clients is deleted and its channel closed;
\* then the connection is closed. Closing a closed channel panics.
unregister(c) ==
    /\ hub.panic = "none"
    /\ hub.readPump[c] = "unregistering"
    /\ hub' = IF c \in hub.clients /\ hub.send[c].closed
              THEN [hub EXCEPT !.panic = "close of closed channel"]
              ELSE [hub EXCEPT
                      !.clients = @ \ {c},
                      !.send[c].closed = TRUE,
                      !.conn[c] = "closed",
                      !.readPump[c] = "done"]
    /\ ret' = Ret("A", "ws_unregister", NoId, [client |-> c], "none")

\* ----------------------------------------------------------- specifications

\* A fresh data_dir on every node: NewDatabaseWithPersistence finds nothing to
\* load or replay; Node.SetDatabase has enabled the synchronisation.
Init ==
    /\ documents = [n \in Nodes |-> EmptyMap]
    /\ files = [n \in Nodes |-> EmptyMap]
    /\ wal = [n \in Nodes |-> <<>>]
    /\ backups = [n \in Nodes |-> EmptyMap]
    /\ nextId = [n \in Nodes |-> 0]
    /\ now = 0
    /\ published = [n \in Nodes |-> <<>>]
    /\ delivered = [n \in Nodes |-> 0]
    /\ events = [n \in Nodes |-> <<>>]
    /\ ret = Ret("A", "open", NoId, EmptyMap, "none")
    /\ restoring = [n \in Nodes |-> Idle]
    /\ taken = [n \in Nodes |-> EmptyMap]
    /\ acked = [n \in Nodes |-> EmptyMap]
    /\ pending = [n \in Nodes |-> {}]
    /\ observed = [n \in Nodes |-> <<>>]
    /\ syncRequests = <<>>
    /\ syncResponses = <<>>
    /\ handled = [n \in Nodes |-> [requests |-> 0, responses |-> 0, doc |-> 0]]
    /\ syncInProgress = [n \in Nodes |-> FALSE]
    /\ syncStats = [n \in Nodes |->
          [total |-> 0, incremental |-> 0, full |-> 0, successful |-> 0,
           failed |-> 0]]
    /\ lastSyncByPeer = [n \in Nodes |-> EmptyMap]
    /\ round = [n \in Nodes |-> NoRound]
    /\ topics = [n \in Nodes |-> {}]
    /\ blocked = [n \in Nodes |-> {}]
    /\ queried = NoQuery
    /\ indexes = EmptyMap
    /\ cache = NoCache
    /\ usage = EmptyMap
    /\ mm = NoManager
    /\ dbMutex = [n \in Nodes |-> Unlocked]
    /\ hub = NewWSServer

\* What the clients of the store send: a new document, and two patches, one
\* overwriting a key and one adding a key.
NewData == {[k \in {"name"} |-> 1]}

Patches == {[k \in {"name"} |-> 2], [k \in {"age"} |-> 3]}

LocalIds(n) == {NewID(n, i) : i \in 1 .. MaxCreates}

\* The clients of node A's store, on a disk and a network that may fail.
Next ==
    \/ \E data \in NewData, io \in IoOutcomes, pubOk \in BOOLEAN :
          now < MaxClock /\ CreateDocument("A", Users, data, io, pubOk)
             /\ UNCHANGED besideStore
    \/ \E id \in LocalIds("A"), data \in Patches, io \in IoOutcomes,
          pubOk \in BOOLEAN :
          now < MaxClock /\ UpdateDocument("A", id, data, io, pubOk)
             /\ UNCHANGED besideStore
    \/ \E id \in LocalIds("A"), io \in IoOutcomes, pubOk \in BOOLEAN :
          now < MaxClock /\ DeleteDocument("A", id, io, pubOk)
             /\ UNCHANGED besideStore

Spec == Init /\ [][Next]_vars

BackupNames == {BackupName(t) : t \in 0 .. MaxBackupClock}

\* One client of node A's store, one call after the other, on a disk that works:
\* documents, backups, restores, and the node closed and opened again.
NextBackup ==
    \/ \E data \in NewData :
          now < MaxBackupClock /\ CreateDocument("A", Users, data, "ok", TRUE)
             /\ UNCHANGED besideStore
    \/ \E id \in LocalIds("A"), data \in {[k \in {"age"} |-> 3]} :
          now < MaxBackupClock /\ UpdateDocument("A", id, data, "ok", TRUE)
             /\ UNCHANGED besideStore
    \/ \E id \in LocalIds("A") :
          now < MaxBackupClock /\ DeleteDocument("A", id, "ok", TRUE)
             /\ UNCHANGED besideStore
    \/ now < MaxBackupClock /\ CreateBackup("A") /\ UNCHANGED besideStore
    \/ \E name \in BackupNames : RestoreFromBackup("A", name)
          /\ UNCHANGED besideStore
    \/ Restart("A") /\ UNCHANGED besideStore

SpecBackup == Init /\ [][NextBackup]_vars

\* Two connected nodes on disks and a network that work: the clients of each
\* store, each node's listener on "db-sync", the full synchronisation (the
\* "sync" command, and Node.SetDatabase five seconds after the start), and
\* node B closed and opened again.
NextSync ==
    \/ \E n \in Nodes, data \in NewData :
          now < MaxSyncClock /\ CreateDocument(n, Users, data, "ok", TRUE)
             /\ UNCHANGED besideStore
    \/ \E n \in Nodes, id \in Ids, data \in {[k \in {"name"} |-> 2]} :
          now < MaxSyncClock /\ UpdateDocument(n, id, data, "ok", TRUE)
             /\ UNCHANGED besideStore
    \/ \E n \in Nodes, id \in Ids :
          now < MaxSyncClock /\ DeleteDocument(n, id, "ok", TRUE)
             /\ UNCHANGED besideStore
    \/ \E n \in Nodes : listenForUpdates(n, "ok")
          /\ UNCHANGED besideStore
    \/ \E n \in Nodes : \E order \in Orders(DOMAIN documents[n]) :
          /\ Len(published[n]) + Len(order) <= MaxPublished
          /\ SyncAllDocuments(n, order, {})
          /\ UNCHANGED besideStore
    \/ Restart("B") /\ UNCHANGED besideStore

SpecSync == Init /\ [][NextSync]_vars

\* Node A's store used by several goroutines on a disk that works: the clients
\* of the store go on while one of them restores a backup. A create, update or
\* delete holds the store's mutex from beginning to end; the restore holds the
\* persistence manager's mutex for its first and for its second part, and the
\* store's mutex for its last part only.
NextRestore ==
    \/ \E data \in NewData :
          now < MaxRestoreClock /\ CreateDocument("A", Users, data, "ok", TRUE)
             /\ UNCHANGED besideStore
    \/ \E id \in LocalIds("A"), data \in Patches :
          now < MaxRestoreClock /\ UpdateDocument("A", id, data, "ok", TRUE)
             /\ UNCHANGED besideStore
    \/ \E id \in LocalIds("A") :
          now < MaxRestoreClock /\ DeleteDocument("A", id, "ok", TRUE)
             /\ UNCHANGED besideStore
    \/ now < MaxRestoreClock /\ CreateBackup("A") /\ UNCHANGED besideStore
    \/ \E name \in BackupNames : RestoreDisk("A", name)
          /\ UNCHANGED besideStore
    \/ RestoreLoad("A") /\ UNCHANGED besideStore
    \/ RestoreSwap("A") /\ UNCHANGED besideStore

SpecRestore == Init /\ [][NextRestore]_vars

\* Node A's store on a disk and a network that work, with the callback main
\* registers: the clients of the store, and the goroutines of the callbacks,
\* each running when the scheduler lets it.
NextEvents ==
    \/ \E data \in NewData :
          now < MaxEventClock /\ CreateDocument("A", Users, data, "ok", TRUE)
             /\ UNCHANGED besideStore
    \/ \E id \in LocalIds("A"), data \in Patches :
          now < MaxEventClock /\ UpdateDocument("A", id, data, "ok", TRUE)
             /\ UNCHANGED besideStore
    \/ \E id \in LocalIds("A") :
          now < MaxEventClock /\ DeleteDocument("A", id, "ok", TRUE)
             /\ UNCHANGED besideStore
    \/ \E c \in pending["A"] : RunCallback("A", c)
          /\ UNCHANGED besideStore

SpecEvents == Init /\ [][NextEvents]_vars

\* A full synchronisation between two nodes on disks and a network that work,
\* as the handlers of the SyncManager carry it out: every request and every
\* response is handed to the handler of each node (SyncManager.Start leaves the
\* registration of the two handlers on their topics commented out). The
\* clients of B fill its store before the first request; A also hears B's
\* gossip.
NextFullSync ==
    \/ \E data \in NewData :
          /\ now < MaxFullSyncClock
          /\ syncRequests = <<>>
          /\ CreateDocument("B", Users, data, "ok", TRUE)
          /\ UNCHANGED besideStore
    \/ \E id \in LocalIds("B"), data \in {[k \in {"age"} |-> 3]} :
          /\ now < MaxFullSyncClock
          /\ syncRequests = <<>>
          /\ UpdateDocument("B", id, data, "ok", TRUE)
          /\ UNCHANGED besideStore
    \/ listenForUpdates("A", "ok") /\ UNCHANGED besideStore
    \/ Len(syncRequests) < MaxRequests /\ performFullSync("A")
          /\ UNCHANGED besideSync
    \/ \E n \in Nodes : \E order \in Orders(Collected(n)) :
          handleSyncRequest(n, order) /\ UNCHANGED besideSync
    \/ \E n \in Nodes : handleSyncResponse(n, "ok", TRUE)
          /\ UNCHANGED besideSync

SpecFullSync == Init /\ [][NextFullSync]_vars

\* The data of the documents the queries are made on: an age that is a
\* number, the same as a string, a smaller number, no age, and a nested map.
QueryData ==
    {[k \in {"age"} |-> QInt(30)],
     [k \in {"age"} |-> QString(<<3, 0>>)],
     [k \in {"age"} |-> QInt(7)],
     [k \in {"name"} |-> QString(<<10, 11>>)],
     [k \in {"address"} |-> QObject([c \in {"city"} |-> QString(<<3, 0>>)])]}

\* The field paths of the conditions: age, address.city and age.city.
QueryFields == {<<"age">>, <<"address", "city">>, <<"age", "city">>}

\* The operators with the values they are given.
QueryOperands ==
    ({"exists"} \X {QBool(TRUE), QBool(FALSE)})
    \cup ({"eq", "ne", "gt", "gte", "lt", "lte"}
          \X {QInt(30), QString(<<3, 0>>)})
    \cup ({"in", "nin"} \X {QList(<<QInt(30), QInt(7)>>)})
    \cup ({"regex", "contains", "startswith", "endswith"} \X {QString(<<3>>)})
    \cup ({"type"} \X {QString(<<18, 23, 29, 14, 16, 14, 27>>)})

QueryConditions ==
    {QueryCondition(f, o[1], o[2]) : f \in QueryFields, o \in QueryOperands}

LogicalConditions ==
    LET old == QueryCondition(<<"age">>, "gte", QInt(30))
        known == QueryCondition(<<"age">>, "exists", QBool(TRUE))
        named == QueryCondition(<<"name">>, "exists", QBool(TRUE))
    IN {LogicalCondition("not", <<old>>),
        LogicalCondition("and", <<known, old>>),
        LogicalCondition("or", <<named, old>>)}

\* Sort, Skip and Limit of the queries.
QueryOptions ==
    LET byAge(direction) == <<[Field |-> <<"age">>, Direction |-> direction]>>
    IN {<<<<>>, 0, 0>>, <<byAge("asc"), 0, 0>>, <<byAge("desc"), 0, 0>>,
        <<<<>>, 1, 0>>, <<<<>>, 2, 0>>, <<<<>>, 0, 1>>, <<byAge("asc"), 1, 1>>}

\* Every condition without options, and with every option the conditions on
\* the age being there and on the age being 30.
Queries ==
    {Query(Users, c, <<>>, 0, 0) : c \in QueryConditions \cup LogicalConditions}
    \cup {Query(Users, QueryCondition(<<"age">>, o[1], o[2]), p[1], p[2], p[3]) :
            o \in {<<"exists", QBool(TRUE)>>, <<"eq", QInt(30)>>},
            p \in QueryOptions}

\* What Query.Execute leaves alone.
besideQuery == <<syncVars, roundVars, indexes, cache, usage, mm, serverVars>>

\* The clients of node A's store, on a disk and a network that work, creating
\* documents in the collections "users" and "documents" and querying "users".
NextQuery ==
    \/ \E data \in QueryData :
          CreateDocument("A", Users, data, "ok", TRUE) /\ UNCHANGED besideStore
    \/ \E data \in {[k \in {"age"} |-> QInt(30)]} :
          /\ CreateDocument("A", "documents", data, "ok", TRUE)
          /\ UNCHANGED besideStore
    \/ \E q \in Queries : \E order \in Orders(DOMAIN documents["A"]) :
          Execute("A", q, order) /\ UNCHANGED besideQuery

SpecQuery == Init /\ [][NextQuery]_vars

\* The data of the documents that are indexed: two with the same email whose
\* first and last name differ but give the same string when joined with "|",
\* one with another email, one without email and last name.
IndexData ==
    LET person(email, first, last) ==
            [k \in {"email", "first", "last"} |->
                QString(CASE k = "email" -> email
                          [] k = "first" -> first
                          [] k = "last" -> last)]
    IN {person(<<10>>, <<10, Bar, 11>>, <<12>>),
        person(<<10>>, <<10>>, <<11, Bar, 12>>),
        person(<<11>>, <<10, Bar, 11>>, <<12>>),
        [k \in {"first"} |-> QString(<<10>>)]}

\* The indexes the application creates: a unique one on the email and one on
\* first and last name.
IndexNames == {"users_email", "users_name"}

IndexFields(name) ==
    IF name = "users_email" THEN <<<<"email">>>> ELSE <<<<"first">>, <<"last">>>>

IndexTypes(name) == IF name = "users_email" THEN "unique" ELSE "non-unique"

\* What a call of an Index or of the IndexManager leaves alone.
besideIndex == <<syncVars, roundVars, queried, cache, usage, mm, serverVars>>

\* An application on node A that creates documents in "users" and keeps the
\* indexes itself, on a disk and a network that work.
NextIndex ==
    \/ \E data \in IndexData :
          /\ now < MaxIndexClock
          /\ CreateDocument("A", Users, data, "ok", TRUE)
          /\ UNCHANGED besideStore
    \/ \E name \in IndexNames :
          /\ now < MaxIndexClock
          /\ CreateIndex(name, Users, IndexFields(name), IndexTypes(name))
          /\ UNCHANGED besideIndex
    \/ \E name \in IndexNames, id \in LocalIds("A") :
          /\ now < MaxIndexClock
          /\ IndexAddDocument(name, id)
          /\ UNCHANGED besideIndex
    \/ \E name \in IndexNames, id \in LocalIds("A") :
          /\ now < MaxIndexClock
          /\ IndexRemoveDocument(name, id)
          /\ UNCHANGED besideIndex
    \/ \E name \in IndexNames, id \in LocalIds("A") :
          /\ now < MaxIndexClock
          /\ IndexUpdateDocument(name, id)
          /\ UNCHANGED besideIndex
    \/ \E id \in DOMAIN documents["A"] :
          \E order \in Orders(GetIndexesForCollection(documents["A"][id].collection)) :
              /\ now < MaxIndexClock
              /\ IndexManagerAddDocument(id, order)
              /\ UNCHANGED besideIndex

SpecIndex == Init /\ [][NextIndex]_vars

\* The users the application creates, each with an email, and what it changes
\* in a user: the email.
ReindexData ==
    {[k \in {"email"} |-> QString(<<10>>)], [k \in {"email"} |-> QString(<<11>>)]}

ReindexPatches == {[k \in {"email"} |-> QString(<<10>>)]}

\* An application on node A that creates and updates users and keeps the
\* unique index on the email itself, calling Index.UpdateDocument after an
\* update, on a disk and a network that work.
NextReindex ==
    \/ \E data \in ReindexData :
          /\ now < MaxReindexClock
          /\ CreateDocument("A", Users, data, "ok", TRUE)
          /\ UNCHANGED besideStore
    \/ \E id \in LocalIds("A"), data \in ReindexPatches :
          /\ now < MaxReindexClock
          /\ id \in DOMAIN documents["A"]
          /\ UpdateDocument("A", id, data, "ok", TRUE)
          /\ UNCHANGED besideStore
    \/ /\ now < MaxReindexClock
       /\ CreateIndex("users_email", Users, IndexFields("users_email"),
                      IndexTypes("users_email"))
       /\ UNCHANGED besideIndex
    \/ \E id \in LocalIds("A") :
          /\ now < MaxReindexClock
          /\ IndexAddDocument("users_email", id)
          /\ UNCHANGED besideIndex
    \/ \E id \in LocalIds("A") :
          /\ now < MaxReindexClock
          /\ IndexUpdateDocument("users_email", id)
          /\ UNCHANGED besideIndex

SpecReindex == Init /\ [][NextReindex]_vars

\* The keys and values the application caches.
CachedKeys == {"k1", "k2", "k3"}

CachedValues == {1}

\* What a call of the Cache leaves alone.
besideCache == <<syncVars, roundVars, queried, indexes, mm, serverVars>>

\* An application on node A with a cache of at most two elements, under each
\* policy, with and without a default TTL, and the sweeper of the cache.
NextCache ==
    \/ \E defaultTTL \in {0, 2}, evictionPolicy \in {"lru", "lfu", "fifo"} :
          NewCache(2, defaultTTL, evictionPolicy) /\ UNCHANGED besideCache
    \/ \E key \in CachedKeys, value \in CachedValues, ttl \in {0, 1} :
          now < MaxCacheClock /\ Set(key, value, ttl) /\ UNCHANGED besideCache
    \/ \E key \in CachedKeys :
          now < MaxCacheClock /\ Get(key) /\ UNCHANGED besideCache
    \/ \E key \in CachedKeys :
          now < MaxCacheClock /\ Delete(key) /\ UNCHANGED besideCache
    \/ now < MaxCacheClock /\ cleanup /\ UNCHANGED besideCache

SpecCache == Init /\ [][NextCache]_vars

\* What a call of the MemoryManager leaves alone.
besideMemory ==
    <<syncVars, roundVars, queried, indexes, cache, usage, serverVars>>

\* Node A's store with a MemoryManager that keeps at most one document in
\* memory, on a disk that may fail; the application may track the accesses.
NextMemory ==
    \/ \E data \in NewData :
          /\ now < MaxMemoryClock
          /\ CreateDocument("A", Users, data, "ok", TRUE)
          /\ UNCHANGED besideStore
    \/ NewMemoryManager(1) /\ UNCHANGED besideMemory
    \/ \E id \in LocalIds("A") :
          /\ now < MaxMemoryClock
          /\ TrackDocumentAccess(id)
          /\ UNCHANGED besideMemory
    \/ \E id \in LocalIds("A") :
          /\ now < MaxMemoryClock
          /\ TrackDocumentSize(id)
          /\ UNCHANGED besideMemory
    \/ \E io \in IoOutcomes :
          now < MaxMemoryClock /\ checkMemory(io) /\ UNCHANGED besideMemory
    \/ \E io \in IoOutcomes :
          now < MaxMemoryClock /\ ForceCleanup(io) /\ UNCHANGED besideMemory

SpecMemory == Init /\ [][NextMemory]_vars

\* What the goroutines that use a Database do not touch.
besideLocks == <<syncVars, roundVars, hub>>

\* The goroutines that use the Database of a node, on disks and a network
\* that work: a client that creates and reads documents, the listener on
\* "db-sync", and on node A the MemoryManager with its ticker, which keeps at
\* most one document in memory; the application tracks the accesses.
NextLocks ==
    \/ \E n \in Nodes, g \in {"client", "listener"} :
          Lock(n, g) /\ UNCHANGED <<storeVars, engineVars, besideLocks>>
    \/ \E n \in Nodes :
          RLock(n, "client") /\ UNCHANGED <<storeVars, engineVars, besideLocks>>
    \/ \E n \in Nodes, data \in NewData :
          /\ now < MaxLockClock
          /\ CreateDocument(n, Users, data, "ok", TRUE)
          /\ Unlock(n, "client")
          /\ UNCHANGED <<engineVars, besideLocks>>
    \/ \E n \in Nodes, id \in Ids :
          /\ GetDocumentCall(n, id)
          /\ RUnlock(n, "client")
          /\ UNCHANGED <<engineVars, besideLocks>>
    \/ \E n \in Nodes :
          /\ listenForUpdates(n, "ok")
          /\ Unlock(n, "listener")
          /\ UNCHANGED <<engineVars, besideLocks>>
    \/ NewMemoryManager(1) /\ UNCHANGED besideMemory
    \/ \E id \in LocalIds("A") :
          /\ now < MaxLockClock
          /\ TrackDocumentAccess(id)
          /\ UNCHANGED besideMemory
    \/ now < MaxLockClock /\ checkMemory("ok") /\ UNCHANGED besideMemory

SpecLocks == Init /\ [][NextLocks]_vars

\* What the WebSocket server and its clients do not touch.
besideHub == <<storeVars, syncVars, roundVars, engineVars, dbMutex>>

\* The WebSocket server of node A: clients connect, send pings and go away,
\* the store publishes events, and the goroutines of run, of the readPump and
\* of the writePump of each client go on in any order.
NextHub ==
    \/ \E c \in Clients : handleWebSocket(c) /\ UNCHANGED besideHub
    \/ PublishEvent /\ UNCHANGED besideHub
    \/ \E c \in Clients, ok \in BOOLEAN :
          writePump(c, ok) /\ UNCHANGED besideHub
    \/ \E c \in Clients, msg \in {"ping", "error"} :
          ReadMessage(c, msg) /\ UNCHANGED besideHub
    \/ \E c \in Clients : sendPong(c) /\ UNCHANGED besideHub
    \/ \E c \in Clients : unregister(c) /\ UNCHANGED besideHub

SpecHub == Init /\ [][NextHub]_vars

\* The goroutines of the running rounds, each going on when it is scheduled.
Goroutines ==
    \E n \in Nodes, pubOk \in BOOLEAN : \E r \in round[n] : \E p \in r.peers :
        /\ sendSyncRequest(n, r, p, pubOk)
        /\ UNCHANGED <<syncResponses, handled, storeButClock, engineVars,
                       serverVars>>

\* The synchronisation rounds of two SyncManagers that have been started: the
\* two tickers of each start rounds, with the peer connected or not; the
\* goroutines of a round send; the application may have joined "sync_request"
\* itself, and may subscribe to "sync_response".
NextRounds ==
    \/ \E n \in Nodes, peers \in SUBSET Nodes :
          /\ peers \subseteq {Peer(n)}
          /\ syncStats[n].total < MaxRounds
          /\ performIncrementalSync(n, peers)
          /\ UNCHANGED <<syncVars, storeVars, engineVars, serverVars>>
    \/ \E n \in Nodes, peers \in SUBSET Nodes :
          /\ peers \subseteq {Peer(n)}
          /\ syncStats[n].total < MaxRounds
          /\ performFullSyncRound(n, peers)
          /\ UNCHANGED <<syncVars, storeVars, engineVars, serverVars>>
    \/ Goroutines
    \/ \E n \in Nodes :
          /\ JoinTopic(n, "sync_request")
          /\ UNCHANGED <<syncVars, storeVars, engineVars, serverVars>>
    \/ \E n \in Nodes :
          /\ Subscribe(n, "sync_response")
          /\ UNCHANGED <<syncVars, storeVars, engineVars, serverVars>>

\* A goroutine that can go on does go on.
SpecRounds == Init /\ [][NextRounds]_vars /\ WF_vars(Goroutines)

\* ------------------------------------------------------------------ claims

Last(q) == q[Len(q)]

Crud == {"create", "update", "delete"}

\* C1: on a single node, GetDocument(id) returns the document as left by the
\* last successful create or update of that id, and the not-found error once
\* DeleteDocument(id) has succeeded and for every id that was never created.
\* (Ids whose CreateDocument returned an error are left out of the statement.)
C1_GetReturnsLastSuccessfulWrite ==
    /\ \A id \in DOMAIN acked["A"] :
          GetDocument("A", id) =
             IF acked["A"][id] = Gone
             THEN [doc |-> EmptyMap, err |-> "notfound"]
             ELSE [doc |-> acked["A"][id], err |-> "none"]
    /\ \A i \in (nextId["A"] + 1) .. MaxCreates :
          GetDocument("A", NewID("A", i)).err = "notfound"

\* C2: when an inbound create or update for an id arrives and the id is present
\* locally, the local document is replaced by the incoming one only if the
\* incoming updated_at is strictly greater than the local updated_at; an
\* incoming document that is not newer is discarded and the local document is
\* unchanged.
C2_InboundReplacesOnlyIfNewer ==
    [][(ret'.op = "listen" /\ ret'.id \in DOMAIN documents[ret'.node]) =>
        LET n == ret'.node
            msg == published[Peer(n)][delivered'[n]]
            local == documents[n][ret'.id]
        IN (msg.operation \in {"create", "update"}
            /\ msg.document.updated_at <= local.updated_at) =>
               documents'[n] = documents[n]]_vars

\* Every message published on "db-sync" has been taken by the peer's listener.
Drained == \A n \in Nodes : delivered[n] = Len(published[Peer(n)])

\* C3: for two nodes exchanging gossip, once every published message has been
\* delivered (and should no write follow), the document map of A equals the
\* document map of B; no two writes of a run have the same updated_at.
C3_DrainedNodesAgree ==
    Drained => documents["A"] = documents["B"]

\* C4: node B never publishes a create for a document that originated on node
\* A, whatever it has applied from the topic and however often it has run
\* SyncAllDocuments.
C4_NoCreateForForeignDocument ==
    \A i \in 1 .. Len(published["B"]) :
        published["B"][i].operation = "create" =>
            published["B"][i].document.id[1] = "B"

\* C5: when CreateDocument, UpdateDocument or DeleteDocument returns success,
\* the transaction log ends with the line of that operation and the document
\* file holds the post-state (is removed, for a delete); in particular a log
\* line that could not be written makes the operation return an error.
C5_SuccessMeansLoggedAndOnDisk ==
    (ret.op \in Crud /\ ret.err = "none") =>
        LET n == ret.node
            id == ret.id
        IN /\ wal[n] # <<>>
           /\ Last(wal[n]).type = ret.op
           /\ Last(wal[n]).doc_id = id
           /\ IF ret.op = "delete"
              THEN id \notin DOMAIN files[n]
              ELSE /\ Last(wal[n]).document = documents[n][id]
                   /\ id \in DOMAIN files[n]
                   /\ files[n][id] = documents[n][id]

\* C6: closing a node and opening it again on the same data_dir (load every
\* document file, then replay the whole log) yields the in-memory map of just
\* before the close.
C6_RestartKeepsMap ==
    [][ret'.op = "restart" => documents'[ret'.node] = documents[ret'.node]]_vars

\* C7: after name := CreateBackup(), any creates, updates, deletes and further
\* CreateBackup calls, and RestoreFromBackup(name), the in-memory map is the map
\* of the moment the backup named name was taken.
C7_RestoreGivesMapOfBackup ==
    (ret.op = "restore" /\ ret.err = "none") =>
        documents[ret.node] = taken[ret.node][ret.id[2]]

\* C8: RestoreFromBackup is serialized against the mutations: none takes effect
\* between the start of the on-disk restore and the replacement of the map, so
\* that when the restore returns the map equals the restored collections tree.
C8_RestoreIsSerialized ==
    (ret.op = "restore" /\ ret.err = "none") =>
        documents[ret.node] = LoadAllDocuments(files[ret.node])

\* C9: UpdateDocument(id, patch) on an existing document is a shallow merge:
\* every key of patch has patch's value, every other key keeps its value, id,
\* collection and created_at are unchanged, updated_at is the time of the update.
C9_UpdateIsShallowMerge ==
    [][(ret'.op = "update" /\ ret'.id \in DOMAIN documents[ret'.node]) =>
        LET old == documents[ret'.node][ret'.id]
            new == documents'[ret'.node][ret'.id]
            patch == ret'.arg
        IN /\ DOMAIN new.data = (DOMAIN old.data) \cup (DOMAIN patch)
           /\ \A k \in DOMAIN patch : new.data[k] = patch[k]
           /\ \A k \in (DOMAIN old.data) \ (DOMAIN patch) : new.data[k] = old.data[k]
           /\ new.id = old.id
           /\ new.collection = old.collection
           /\ new.created_at = old.created_at
           /\ new.updated_at = now]_vars

\* An update has overwritten one key of a document and kept another.
C9_Witness ==
    /\ ret.op = "update"
    /\ ret.err = "none"
    /\ ret.arg = [k \in {"name"} |-> 2]
    /\ documents[ret.node][ret.id].data = [k \in Keys |-> IF k = "name" THEN 2 ELSE 3]

\* C10: UpdateDocument and DeleteDocument on an id that is not in the store
\* return the not-found error, leave the map, the document files and the log
\* unchanged, invoke no callback and publish nothing.
C10_UnknownIdChangesNothing ==
    [][(ret'.op \in {"update", "delete"}
        /\ ret'.id \notin DOMAIN documents[ret'.node]) =>
        /\ ret'.err = "notfound"
        /\ UNCHANGED <<documents, files, wal, events, published>>]_vars

\* An update or a delete of an unknown id has returned.
C10_Witness ==
    /\ ret.op \in {"update", "delete"}
    /\ ret.err = "notfound"

\* C11: when persisting the document fails during CreateDocument, the call
\* returns the error, the new document is nevertheless in the map (GetDocument
\* on its id succeeds), no create event is dispatched and nothing is published.
C11_FailedCreateStaysVisible ==
    [][(ret'.op = "create" /\ ret'.err = "persist") =>
        /\ ret'.id \notin DOMAIN documents[ret'.node]
        /\ ret'.id \in DOMAIN documents'[ret'.node]
        /\ documents'[ret'.node][ret'.id].data = ret'.arg
        /\ UNCHANGED <<events, published>>]_vars

\* A create has returned the persistence error and its document is in the map.
C11_Witness ==
    /\ ret.op = "create"
    /\ ret.err = "persist"
    /\ GetDocument(ret.node, ret.id).err = "none"

\* The event a successful step on id dispatches: for an update or a delete the
\* collection is the one of the document before the step.
EventOf(op, n, id, before, after) ==
    [type |-> op,
     collection |-> IF op = "create" THEN after[n][id].collection
                    ELSE before[n][id].collection,
     id |-> id]

\* C12: when publishing on "db-sync" fails or times out during CreateDocument,
\* UpdateDocument or DeleteDocument (the step has changed the document file and
\* has published nothing), the call still returns success, the change of the
\* map and of the file is kept, and the callback is still invoked.
C12_PublishFailureKeepsLocalWrite ==
    [][(ret'.op \in Crud /\ files' # files /\ published' = published) =>
        LET n == ret'.node
            id == ret'.id
        IN /\ ret'.err = "none"
           /\ IF ret'.op = "delete"
              THEN id \notin DOMAIN documents'[n] /\ id \notin DOMAIN files'[n]
              ELSE /\ id \in DOMAIN documents'[n]
                   /\ documents'[n][id] # IF id \in DOMAIN documents[n]
                                          THEN documents[n][id] ELSE EmptyMap
                   /\ files'[n][id] = documents'[n][id]
           /\ events'[n] = Append(events[n],
                  EventOf(ret'.op, n, id, documents, documents'))]_vars

\* A create, update or delete has returned success without its message.
C12_Witness ==
    /\ ret.op \in Crud
    /\ ret.err = "none"
    /\ \A i \in 1 .. Len(published[ret.node]) :
          LET msg == published[ret.node][i]
          IN ret.id # IF msg.operation = "delete"
                      THEN msg.document_id ELSE msg.document.id
    /\ events[ret.node] # <<>>

\* C13: every successful CreateDocument, UpdateDocument or DeleteDocument starts
\* the registered callback exactly once, with the operation, collection and id
\* of that mutation; a call that returns an error starts none.
C13_OneCallbackPerSuccess ==
    [][ret'.op \in Crud =>
        LET n == ret'.node
        IN IF ret'.err = "none"
           THEN events'[n] = Append(events[n],
                    EventOf(ret'.op, n, ret'.id, documents, documents'))
           ELSE events' = events]_vars

\* A successful update and a failed call have both happened: the last event is
\* the update's, and the last call returned an error.
C13_Witness ==
    /\ ret.op \in Crud
    /\ ret.err # "none"
    /\ events[ret.node] # <<>>
    /\ Last(events[ret.node]).type = "update"

\* C14: for a fixed document id, the callback observes the events of that id's
\* successful mutations in the order in which the mutations committed.
C14_CallbacksInCommitOrder ==
    \A n \in Nodes : \A i, j \in 1 .. Len(observed[n]) :
        (i < j /\ observed[n][i].id = observed[n][j].id) =>
            observed[n][i].seq < observed[n][j].seq

\* C15: a callback invoked with a create event for an id, calling GetDocument
\* on that id, gets the document and never the not-found error, whatever the
\* mutators of the store do meanwhile.
C15_CreateCallbackFindsDocument ==
    \A n \in Nodes : \A i \in 1 .. Len(observed[n]) :
        observed[n][i].type = "create" => observed[n][i].found

\* C16: the document a callback is given shows, when the callback reads it, the
\* state committed by the very mutation of the event (for a delete, the state
\* just before the deletion), whatever later mutations of the id have committed.
C16_CallbackSeesCommittedState ==
    \A n \in Nodes : \A i \in 1 .. Len(observed[n]) :
        observed[n][i].document = observed[n][i].committed

\* C17: when a node applies a create, update or delete received through
\* gossip, it dispatches the event of that mutation to the locally registered
\* callback, and it does not publish the mutation again.
C17_InboundNotifiesSubscribers ==
    [][ret'.op = "listen" =>
        LET n == ret'.node
        IN /\ Len(events'[n]) = Len(events[n]) + 1
           /\ Last(events'[n]).id = ret'.id
           /\ Last(events'[n]).type = published[Peer(n)][delivered'[n]].operation
           /\ published' = published]_vars

\* C18: an inbound create or update for an id that is absent locally inserts
\* the incoming document as it is (same id, collection, data, created_at and
\* updated_at) and persists it to its document file.
C18_InboundInsertIsPersisted ==
    [][(ret'.op = "listen" /\ ret'.id \notin DOMAIN documents[ret'.node]) =>
        LET n == ret'.node
            msg == published[Peer(n)][delivered'[n]]
        IN msg.operation \in {"create", "update"} =>
              /\ ret'.id \in DOMAIN documents'[n]
              /\ documents'[n][ret'.id] = msg.document
              /\ ret'.id \in DOMAIN files'[n]
              /\ files'[n][ret'.id] = msg.document]_vars

\* C19: every stored document has created_at <= updated_at, and the stored
\* updated_at of an id does not decrease when a local update or a remote
\* message is applied.
C19_UpdatedAtNeverDecreases ==
    [][ret'.op \in {"update", "listen"} =>
        \A n \in Nodes : \A id \in DOMAIN documents'[n] :
            /\ documents'[n][id].created_at <= documents'[n][id].updated_at
            /\ id \in DOMAIN documents[n] =>
                  documents[n][id].updated_at <= documents'[n][id].updated_at]_vars

\* Every full synchronisation request has been answered and every response has
\* been handled to its end.
FullSyncOver ==
    /\ syncRequests # <<>>
    /\ \A n \in Nodes :
          /\ handled[n].requests = Len(syncRequests)
          /\ handled[n].responses = Len(syncResponses)

\* C20: in answer to a full request the responder returns every document of
\* its store that is not in an excluded collection, in batches of at most
\* batch_size, a response with has_more being followed by a further request,
\* so that once the exchange is over every such document has been sent to the
\* initiator.
C20_FullSyncReturnsEveryDocument ==
    /\ \A i \in 1 .. Len(syncResponses) :
          Len(syncResponses[i].documents) <= BatchSize
    /\ FullSyncOver =>
          \A id \in DOMAIN documents["B"] :
              documents["B"][id].collection \notin ExcludedCollections =>
                  \E i \in 1 .. Len(syncResponses) :
                      /\ syncResponses[i].node_id = "B"
                      /\ \E k \in 1 .. Len(syncResponses[i].documents) :
                            syncResponses[i].documents[k].id = id

\* C21: every synchronisation round that starts finishes, and on finishing
\* clears syncInProgress, so that a later tick of the ticker can start a round.
C21_RoundFinishes ==
    \A n \in Nodes : syncInProgress[n] ~> ~syncInProgress[n]

\* The last step was an Execute.
Queried == queried.node # "none"

\* The last Execute had one QueryCondition and neither Skip nor Limit: its
\* result is the documents that match the condition.
QueriedPlain ==
    /\ Queried
    /\ "Field" \in DOMAIN queried.query.Condition
    /\ queried.query.Options.Skip = 0
    /\ queried.query.Options.Limit = 0

InResults(doc) == \E i \in DOMAIN queried.results : queried.results[i] = doc

\* C22: on a document in which the field path of the condition does not
\* resolve, exists with false is true, exists with true is false, nin is true
\* and every other operator is false.
C22_AbsentField ==
    QueriedPlain =>
        \A i \in DOMAIN queried.docs :
            LET doc == queried.docs[i]
                c == queried.query.Condition
            IN getNestedFieldValue(doc.data, c.Field).type = "error" =>
                (InResults(doc) <=>
                    \/ c.Operator = "exists" /\ c.Value.val[1] = 0
                    \/ c.Operator = "nin")

\* Same type and same value.
StrictlyEqual(a, b) == a.type = b.type /\ a.val = b.val

\* C23: on a present field eq is true only for a value of the same type and
\* the same value (the number 30 is not the string "30"), and ne is true
\* exactly when eq is not.
C23_EqIsStrict ==
    QueriedPlain =>
        \A i \in DOMAIN queried.docs :
            LET doc == queried.docs[i]
                c == queried.query.Condition
                fieldValue == getNestedFieldValue(doc.data, c.Field)
            IN fieldValue.type # "error" =>
                /\ c.Operator = "eq" =>
                      (InResults(doc) <=> StrictlyEqual(fieldValue, c.Value))
                /\ c.Operator = "ne" =>
                      (InResults(doc) <=> ~StrictlyEqual(fieldValue, c.Value))

\* C24: the result is the documents of the collection that match, sorted,
\* without the first Skip of them (none is left when Skip is their number or
\* more), and of those at most Limit when a limit is set.
C24_FilterSortSkipLimit ==
    Queried =>
        LET q == queried.query
            Matches(doc) == matchesCondition(doc.data, q.Condition)
            sorted == sortDocuments(SelectSeq(queried.docs, Matches),
                                    q.Options.Sort)
            skipped == SubSeq(sorted, q.Options.Skip + 1, Len(sorted))
            kept == IF q.Options.Limit > 0 /\ q.Options.Limit < Len(skipped)
                    THEN SubSeq(skipped, 1, q.Options.Limit) ELSE skipped
        IN queried.results = kept

\* C25: with a sort option, two documents of the result whose sort keys
\* compare equal are in the order in which they were inserted.
C25_SortIsStable ==
    Queried /\ Len(queried.query.Options.Sort) > 0 =>
        \A i, j \in DOMAIN queried.results :
            LET field == queried.query.Options.Sort[1].Field
                keyI == getNestedFieldValue(queried.results[i].data, field)
                keyJ == getNestedFieldValue(queried.results[j].data, field)
            IN /\ i < j
               /\ keyI.type # "error"
               /\ keyJ.type # "error"
               /\ compareValues(keyI, keyJ) = 0
               => queried.results[i].created_at < queried.results[j].created_at

\* C26: Index.AddDocument on a unique index, for a document whose key can be
\* computed, returns an error exactly when the key already maps to another
\* document; when it returns none, the key maps to that document alone.
C26_UniqueRejectsOnlyOtherDocument ==
    [][ret'.op = "index_add" =>
        LET idx == indexes[ret'.arg.index]
            doc == documents["A"][ret'.id]
            key == getIndexValue(idx, doc)
            taken_by_other == \E i \in DOMAIN IdsOf(idx, key.value) :
                                 IdsOf(idx, key.value)[i] # doc.id
        IN idx.Unique /\ key.err = "none" =>
            /\ ret'.err # "none" <=> taken_by_other
            /\ ret'.err = "none" =>
                  IdsOf(indexes'[ret'.arg.index], key.value) = <<doc.id>>
      ]_vars

\* The unique index on users.email is there.
UniqueEmailIndex ==
    \E name \in DOMAIN indexes :
        /\ indexes[name].Unique
        /\ indexes[name].Collection = Users
        /\ indexes[name].Fields = <<<<"email">>>>

\* C27: with the unique index on users.email, a CreateDocument that returns
\* no error has not added a document with the email of another document of
\* "users".
C27_SecondEmailIsRefused ==
    ret.op = "create" /\ ret.err = "none" /\ UniqueEmailIndex =>
        \A id \in DOMAIN documents["A"] \ {ret.id} :
            LET old == documents["A"][id]
                new == documents["A"][ret.id]
            IN /\ old.collection = Users
               /\ new.collection = Users
               /\ "email" \in DOMAIN old.data
               /\ "email" \in DOMAIN new.data
               => ~StrictlyEqual(old.data["email"], new.data["email"])

\* C28: two documents that an index on several fields gives the same key
\* have the same value in every field of the index.
C28_CompositeKeysDoNotCollide ==
    \A name \in DOMAIN indexes : \A id1, id2 \in DOMAIN documents["A"] :
        LET idx == indexes[name]
            doc1 == documents["A"][id1]
            doc2 == documents["A"][id2]
        IN /\ Len(idx.Fields) > 1
           /\ getIndexValue(idx, doc1).err = "none"
           /\ getIndexValue(idx, doc2).err = "none"
           /\ getIndexValue(idx, doc1).value = getIndexValue(idx, doc2).value
           => \A i \in DOMAIN idx.Fields :
                 StrictlyEqual(getFieldValue(doc1.data, idx.Fields[i]),
                               getFieldValue(doc2.data, idx.Fields[i]))

\* C29: a Set of a new key that brings the cache over maxSize evicts exactly
\* one entry: under lru the one set or read longest ago, under fifo the one
\* that entered first, under lfu one with the lowest access count.
C29_EvictsOneByPolicy ==
    [][/\ ret'.op = "cache_set"
       /\ ret'.arg.key \notin CacheKeys(cache)
       /\ cache.maxSize > 0
       /\ Len(cache.itemsList) + 1 > cache.maxSize
       => LET key == ret'.arg.key
              before == CacheKeys(cache)
              gone == (before \cup {key}) \ CacheKeys(cache')
              count(k) == IF k = key THEN 1 ELSE cache.accessCount[k]
          IN /\ CacheKeys(cache') \subseteq before \cup {key}
             /\ Cardinality(gone) = 1
             /\ \A victim \in gone :
                   CASE cache.evictionPolicy = "lru" ->
                          /\ victim \in before
                          /\ \A k \in before :
                                usage[victim].used <= usage[k].used
                     [] cache.evictionPolicy = "fifo" ->
                          /\ victim \in before
                          /\ \A k \in before :
                                usage[victim].entered <= usage[k].entered
                     [] cache.evictionPolicy = "lfu" ->
                          \A k \in before \cup {key} : count(victim) <= count(k)
      ]_vars

\* The TTL of the item has elapsed at time t.
Elapsed(item, t) == item.ExpiresAt # ZeroTime /\ t > item.ExpiresAt

\* C30: a Get on an entry whose TTL has elapsed returns no value, removes the
\* entry and counts one expiration and one miss; a Get that returns a value
\* returns that of an entry whose TTL has not elapsed. The sweeper may run at
\* any time.
C30_GetNeverReturnsExpired ==
    [][ret'.op = "cache_get" =>
        LET key == ret'.arg.key
            there == key \in CacheKeys(cache)
        IN /\ there /\ Elapsed(ItemOf(cache, key), now) =>
                /\ ~ret'.arg.found
                /\ key \notin CacheKeys(cache')
                /\ cache'.stats.Expirations = cache.stats.Expirations + 1
                /\ cache'.stats.Misses = cache.stats.Misses + 1
           /\ ret'.arg.found =>
                /\ there
                /\ ~Elapsed(ItemOf(cache, key), now)
                /\ ret'.arg.value = ItemOf(cache, key).Value
      ]_vars

\* A Get has just found an entry expired that no sweep had removed.
C30_Witness ==
    /\ ret.op = "cache_get"
    /\ ret.err = "expired"
    /\ ~ret.arg.found
    /\ cache.stats.Expirations = 1
    /\ cache.stats.Misses = 1

\* The document of that id was created on node A and the MemoryManager has
\* evicted it, nothing else taking documents out of the map.
Evicted(id) == id[2] <= nextId["A"] /\ id \notin DOMAIN documents["A"]

\* C31: a document the MemoryManager has evicted has its file on disk, and
\* GetDocument(id) returns it.
C31_EvictedIsReadFromDisk ==
    \A id \in LocalIds("A") :
        Evicted(id) =>
            /\ id \in DOMAIN files["A"]
            /\ GetDocument("A", id).err = "none"

\* C32: after a cleanup, periodic or forced, with MaxDocuments > 0, at most
\* MaxDocuments documents are in memory.
C32_CleanupKeepsMaxDocuments ==
    /\ ret.op \in {"check_memory", "force_cleanup"}
    /\ mm.MaxDocuments > 0
    => Cardinality(DOMAIN documents["A"]) <= mm.MaxDocuments

\* C33: a SyncManager never has two rounds in progress, and a round that is
\* triggered while one is running returns without a request, without a change
\* of the statistics and without a change of the running round.
C33_OneRoundAtATime ==
    [][\A n \in Nodes :
        /\ Cardinality(round'[n]) <= 1
        /\ /\ ret'.op \in {"incremental", "full"}
           /\ ret'.node = n
           /\ round[n] # {}
           => /\ syncRequests' = syncRequests
              /\ syncStats'[n] = syncStats[n]
              /\ round'[n] = round[n]
              /\ lastSyncByPeer'[n] = lastSyncByPeer[n]
      ]_vars

\* A round has just been triggered while another was running, and returned.
C33_Witness ==
    /\ ret.op \in {"incremental", "full"}
    /\ ret.err = "in_progress"
    /\ round[ret.node] # {}
    /\ syncInProgress[ret.node]

\* The last-sync time node n has stored for peer p, the zero time for none.
StoredLastSync(n, p) ==
    IF p \in DOMAIN lastSyncByPeer[n] THEN lastSyncByPeer[n][p] ELSE ZeroTime

\* C34: the last-sync time stored for a peer changes only when a response of
\* that peer to a request of the node has arrived and been handled, and an
\* incremental request carries the time stored for the peer.
C34_LastSyncFollowsExchange ==
    [][\A n \in Nodes :
        /\ \A p \in Nodes :
              lastSyncByPeer'[n] # lastSyncByPeer[n] /\ p \in DOMAIN lastSyncByPeer'[n]
              /\ StoredLastSync(n, p) # lastSyncByPeer'[n][p]
              => \E i \in 1 .. handled'[n].responses :
                    /\ syncResponses'[i].node_id = p
                    /\ \E j \in DOMAIN syncRequests' :
                          /\ syncRequests'[j].node_id = n
                          /\ syncRequests'[j].request_id =
                                syncResponses'[i].request_id
        /\ /\ ret'.op = "send"
           /\ ret'.node = n
           /\ Len(syncRequests') > Len(syncRequests)
           /\ syncRequests'[Len(syncRequests')].request_type = "incremental"
           => syncRequests'[Len(syncRequests')].last_sync_time =
                 StoredLastSync(n, ret'.arg.peer)
      ]_vars

\* C36: on disks that work and with no eviction, after a local create, update
\* or delete and after an inbound apply, the map of the node and its document
\* files hold the same ids and the same documents.
C36_MapEqualsFiles ==
    \A n \in Nodes :
        ret.node = n /\ ret.op \in {"create", "update", "delete", "listen"} =>
            /\ DOMAIN documents[n] = DOMAIN files[n]
            /\ \A id \in DOMAIN documents[n] : files[n][id] = documents[n][id]

\* C37: an Index.UpdateDocument that returns an error leaves the ids of every
\* key of the index as they were, so that the document is found under the key
\* it had.
C37_FailedUpdateKeepsIndex ==
    [][ret'.op = "index_update" /\ ret'.err # "none" =>
        indexes'[ret'.arg.index].Data = indexes[ret'.arg.index].Data]_vars

\* C38: no call of Subscribe or Publish waits for ever on the mutex of its
\* own PubSubService: none has returned blocked and no goroutine is stuck.
C38_CallsReturn ==
    /\ \A n \in Nodes : blocked[n] = {}
    /\ ret.op \in {"subscribe", "send"} => ret.err # "blocked"

\* The goroutine that makes the call ret is about.
GoroutineOf(op) ==
    IF op \in {"create", "update", "delete", "get"} THEN "client"
    ELSE IF op = "listen" THEN "listener"
    ELSE "memory"

\* C35: a goroutine that writes to the map of a Database holds its mutex for
\* writing, and one that reads the map holds it for reading or writing: the
\* mutators of the store and the listener write, GetDocument reads, and the
\* check of the MemoryManager reads the map and may delete from it.
C35_MapUnderMutex ==
    [][LET n == ret'.node
           g == GoroutineOf(ret'.op)
       IN /\ ret'.op \in {"create", "update", "delete", "listen"} =>
                dbMutex[n].writer = g
          /\ ret'.op \in {"get", "check_memory", "force_cleanup"} =>
                dbMutex[n].writer = g \/ g \in dbMutex[n].readers
          /\ ret'.op \in {"check_memory", "force_cleanup"}
                /\ documents'[n] # documents[n] => dbMutex[n].writer = g
      ]_vars

\* C39: nothing sends on the send channel of a client, or closes it, after
\* the server has closed it: the process has not panicked.
C39_NoUseOfClosedChannel ==
    hub.panic = "none"

====
